---------------------------- MODULE Spec2Model ----------------------------
(***************************************************************************)
(* JSCallbackObject<Parent>: the dispatch of property access, invocation   *)
(* and construction of a callback-backed script object through the chain   *)
(* of class descriptors (JSClassRef, linked by parentClass).               *)
(*                                                                         *)
(* Every handler of JSCallbackObjectFunctions.h is an operator that walks  *)
(* the chain as the code does and yields the SET of outcomes the handler   *)
(* can have: a host callback is a function of the embedder, so each        *)
(* invocation answers with any response of Resp.  An outcome is a record   *)
(*   [ret, thrown, log, own, made, names]                                  *)
(* ret    the handler's return value (a Value)                             *)
(* thrown the exception pending in the throw scope when it returns         *)
(* log    the sequence of events of the handler, in program order: every   *)
(*        host callback invocation, every static table lookup, every call  *)
(*        of the generic object (Parent::)                                 *)
(* own    the own properties of the instance afterwards                    *)
(* made   the number of JSCallbackFunction objects it created              *)
(* names  the property names an enumeration has added to its output.       *)
(***************************************************************************)
EXTENDS Integers, Sequences, FiniteSets, TLC

VARIABLES classes,     \* the descriptor chain: classes[c] for each JSClassRef c
          phase,       \* "constructed", "live" (after finishCreation) or "destroyed"
          own,         \* the own properties of the instance (the generic object's storage)
          privateData, \* m_callbackObjectData->privateData
          created,     \* per name, the JSCallbackFunction objects created so far
          lifecycle,   \* the initialize and finalize invocations so far, in order
          last,        \* the last operation on the instance and its outcome
          walk,        \* a chain loop in progress, iteration by iteration
          file         \* ResourceLoader::readFileToString in progress, and the file system

vars == <<classes, phase, own, privateData, created, lifecycle, last, walk, file>>

-----------------------------------------------------------------------------
(* Bounds *)

MaxDepth == 2      \* longest descriptor chain

(* Names of properties.  "0" is the name Identifier::from gives index 0; the *)
(* static tables of a descriptor hold entries for StaticName only.          *)
Names == {"0", "x"}
Indices == {0}
StaticName == "0"

-----------------------------------------------------------------------------
(* Values and attributes *)

nullptr == 0

kJSPropertyAttributeReadOnly == "ReadOnly"
kJSPropertyAttributeDontEnum == "DontEnum"
kJSPropertyAttributeDontDelete == "DontDelete"
Attributes == {kJSPropertyAttributeReadOnly, kJSPropertyAttributeDontEnum,
               kJSPropertyAttributeDontDelete}

(* A script value: t says where it comes from, c which descriptor (or which *)
(* creation) produced it.                                                   *)
Val(t, c) == [t |-> t, c |-> c]
Empty == Val("empty", 0)            \* JSValue(): no value
jsUndefined == Val("undefined", 0)
jsTrue == Val("true", 0)
jsFalse == Val("false", 0)
OneValue == Val("script", 1)                        \* the values a script assigns
PutValues == {OneValue, Val("script", 2)}
jsBoolean(b) == IF b THEN jsTrue ELSE jsFalse

(* Identifier::from(exec, propertyIndex): the decimal string of the index. *)
Digits == <<"0", "1", "2", "3", "4", "5", "6", "7", "8", "9">>
RECURSIVE IdentifierFrom(_)
IdentifierFrom(i) ==
    IF i < 10 THEN Digits[i + 1]
    ELSE IdentifierFrom(i \div 10) \o Digits[(i % 10) + 1]

-----------------------------------------------------------------------------
(* Events of a handler *)

Resp == [ret : BOOLEAN, exc : BOOLEAN]   \* what a host callback answers: its return
                                         \* value (non-null / true) and whether it set
                                         \* its exception out-parameter

Form(version) == IF version = 0 THEN "Legacy" ELSE "Extended"

(* One invocation of a host callback.  kind: the callback; cls: the descriptor *)
(* the walk is at; owner/gen: what owns the callback pointer and its declared  *)
(* generation; form: the signature it is called with; dropped: a              *)
(* JSLock::DropAllLocks guard is alive during the call; relocked: the guard is *)
(* destroyed before the core reads the result; r: the host's answer.           *)
Cb(kind, cls, owner, gen, form, dropped, relocked, r) ==
    [kind |-> kind, cls |-> cls, owner |-> owner, gen |-> gen, form |-> form,
     dropped |-> dropped, relocked |-> relocked, ret |-> r.ret, exc |-> r.exc]

(* A step of the core itself: a static table lookup (ret: found) or a call of *)
(* the generic object.                                                        *)
Step(kind, cls, ret) ==
    [kind |-> kind, cls |-> cls, owner |-> "core", gen |-> 0, form |-> "-",
     dropped |-> FALSE, relocked |-> TRUE, ret |-> ret, exc |-> FALSE]

Outcome(ret, thrown, log, o, made) ==
    [ret |-> ret, thrown |-> thrown, log |-> log, own |-> o, made |-> made,
     names |-> {}]

IsCallback(e) == e.owner # "core"


-----------------------------------------------------------------------------
(* The descriptor chain *)

classRef == 1      \* classRef(): the instance's own descriptor, the head of the chain

parentClass(c) == classes[c].parentClass

(* jsClass->staticValues(exec) / staticFunctions(exec): the tables, as        *)
(* functions from the names they contain to their entries.                    *)
staticValues(c) == classes[c].staticValues
staticFunctions(c) == classes[c].staticFunctions
contains(table, name) == name \in DOMAIN table

(* All invocations a call site can produce, one per answer of the host.       *)
Calls(kind, c, owner, gen, form, dropped, relocked) ==
    { Cb(kind, c, owner, gen, form, dropped, relocked, r) : r \in Resp }

(* What the throw scope holds after "if (exception) throwException(...)".     *)
(* the exception out-parameter never looked at *)
Thrown_Swallowed(ev) == "none"

Thrown(ev) == IF ev.exc THEN "host" ELSE "none"

-----------------------------------------------------------------------------
(* The generic object (Parent::, JSObject): own property storage.             *)

NoProperty == [v |-> Empty, attrs |-> {}]

ParentGetOwnPropertySlot(o, name) == o[name].v # Empty

putDirect(o, name, value, attrs) ==
    [o EXCEPT ![name] = [v |-> value, attrs |-> attrs]]

(* Parent::put: writes the own data property unless it exists read-only.      *)
ParentPut(o, name, value) ==
    IF ParentGetOwnPropertySlot(o, name)
       /\ kJSPropertyAttributeReadOnly \in o[name].attrs
    THEN [ok |-> FALSE, own |-> o]
    ELSE [ok |-> TRUE,
          own |-> [o EXCEPT ![name] = [v |-> value, attrs |-> o[name].attrs]]]

(* Parent::deleteProperty: removes the own property unless it is DontDelete.  *)
ParentDeleteProperty(o, name) ==
    IF ParentGetOwnPropertySlot(o, name)
       /\ kJSPropertyAttributeDontDelete \in o[name].attrs
    THEN [ok |-> FALSE, own |-> o]
    ELSE [ok |-> TRUE, own |-> [o EXCEPT ![name] = NoProperty]]

(* Parent::getOwnNonIndexPropertyNames: the own names, DontEnum ones on       *)
(* request only.                                                              *)
ParentGetOwnPropertyNames(o, includeDontEnum) ==
    { n \in Names : /\ ParentGetOwnPropertySlot(o, n)
                    /\ (kJSPropertyAttributeDontEnum \notin o[n].attrs
                        \/ includeDontEnum) }

-----------------------------------------------------------------------------
(* JSCallbackObject::put *)

(* entry->v0.setProperty, read whatever entry->version is (line 322).  For a  *)
(* version 1000 entry the v0 member was never written: the read gives the     *)
(* storage of v1000.setPropertyEx where the two share it, null where not.     *)
EntryV0SetProperty(entry) ==
    IF entry.version = 0 THEN {entry.setProperty} ELSE {entry.setProperty, FALSE}

putGeneric(o, name, value, log, kind) ==
    LET p == ParentPut(o, name, value)
    IN  Outcome(jsBoolean(p.ok), "none", Append(log, Step(kind, nullptr, p.ok)), p.own, 0)

RECURSIVE putFrom(_, _, _, _, _)
putFrom(o, name, value, c, log) ==
    IF c = nullptr
    THEN { putGeneric(o, name, value, log, "Parent::put") }
    ELSE
    LET jsClass == classes[c]
        setProperty == jsClass.version = 0 /\ jsClass.setProperty
        setPropertyEx == jsClass.version = 1000 /\ jsClass.setProperty
        \* lines 339-348
        functions(log2) ==
            LET found == contains(staticFunctions(c), name)
                log3 == Append(log2, Step("staticFunctions", c, found))
            IN  IF found
                THEN LET entry == staticFunctions(c)[name]
                     IN  IF ParentGetOwnPropertySlot(o, name)
                         THEN { putGeneric(o, name, value, log3, "Parent::put") }
                         ELSE IF kJSPropertyAttributeReadOnly \in entry.attributes
                         THEN { Outcome(jsFalse, "none", log3, o, 0) }
                         ELSE { Outcome(jsTrue, "none",
                                        Append(log3, Step("putDirect", c, TRUE)),
                                        putDirect(o, name, value, {}), 0) }
                ELSE putFrom(o, name, value, parentClass(c), log3)
        \* lines 316-337
        values(log1) ==
            LET found == contains(staticValues(c), name)
                log2 == Append(log1, Step("staticValues", c, found))
            IN  IF found
                THEN LET entry == staticValues(c)[name]
                     IN  IF kJSPropertyAttributeReadOnly \in entry.attributes
                         THEN { Outcome(jsFalse, "none", log2, o, 0) }
                         ELSE IF (entry.version = 0 /\ setProperty)
                                 \/ (entry.version = 1000 /\ setPropertyEx)
                         THEN UNION {
                                IF v0setProperty
                                THEN UNION {
                                       IF ev.ret \/ ev.exc
                                       THEN { Outcome(jsBoolean(ev.ret), Thrown(ev),
                                                      Append(log2, ev), o, 0) }
                                       ELSE functions(Append(log2, ev))
                                       : ev \in Calls("setProperty", c, "staticValue",
                                                     entry.version, "Legacy", TRUE, TRUE) }
                                ELSE functions(log2)
                                : v0setProperty \in EntryV0SetProperty(entry) }
                         ELSE functions(log2)
                ELSE functions(log2)
    IN  \* lines 299-313
        IF setProperty \/ setPropertyEx
        THEN UNION {
               IF ev.ret \/ ev.exc
               THEN { Outcome(jsBoolean(ev.ret), Thrown(ev), Append(log, ev), o, 0) }
               ELSE values(Append(log, ev))
               : ev \in Calls("setProperty", c, "class", jsClass.version,
                             Form(jsClass.version), TRUE, TRUE) }
        ELSE values(log)

(* put leaving out the putDirect of the override (line 346) *)
put_OverrideNotStored(o, name, value) ==
    { IF out.log[Len(out.log)].kind = "putDirect"
      THEN [out EXCEPT !.own = o]
      ELSE out
      : out \in putFrom(o, name, value, classRef, <<>>) }

(* put reporting success whatever the callback answered *)
put_ResultDropped(o, name, value) ==
    { [out EXCEPT !.ret = jsTrue] : out \in putFrom(o, name, value, classRef, <<>>) }

(* put going on to the generic object after a read-only static value *)
put_ReadOnlyUnchecked(o, name, value) ==
    { IF /\ out.ret = jsFalse
         /\ out.log[Len(out.log)].kind = "staticValues"
      THEN putGeneric(o, name, value, out.log, "Parent::put")
      ELSE out
      : out \in putFrom(o, name, value, classRef, <<>>) }

put(o, name, value) == putFrom(o, name, value, classRef, <<>>)

-----------------------------------------------------------------------------
(* JSCallbackObject::putByIndex *)

RECURSIVE putByIndexFrom(_, _, _, _, _)
putByIndexFrom(o, propertyName, value, c, log) ==
    IF c = nullptr
    THEN { putGeneric(o, propertyName, value, log, "Parent::putByIndex") }
    ELSE
    LET jsClass == classes[c]
        setProperty == jsClass.version = 0 /\ jsClass.setProperty
        setPropertyEx == jsClass.version = 1000 /\ jsClass.setProperty
        \* lines 409-415
        functions(log2) ==
            LET found == contains(staticFunctions(c), propertyName)
                log3 == Append(log2, Step("staticFunctions", c, found))
            IN  IF found
                THEN IF kJSPropertyAttributeReadOnly
                           \in staticFunctions(c)[propertyName].attributes
                     THEN { Outcome(jsFalse, "none", log3, o, 0) }
                     ELSE \* break
                          { putGeneric(o, propertyName, value, log3, "Parent::putByIndex") }
                ELSE putByIndexFrom(o, propertyName, value, parentClass(c), log3)
        \* lines 388-407: the callback invoked is the descriptor's own again
        values(log1) ==
            LET found == contains(staticValues(c), propertyName)
                log2 == Append(log1, Step("staticValues", c, found))
            IN  IF found
                THEN LET entry == staticValues(c)[propertyName]
                     IN  IF kJSPropertyAttributeReadOnly \in entry.attributes
                         THEN { Outcome(jsFalse, "none", log2, o, 0) }
                         ELSE IF (entry.version = 0 /\ setProperty)
                                 \/ (entry.version = 1000 /\ setPropertyEx)
                         THEN UNION {
                                IF ev.ret \/ ev.exc
                                THEN { Outcome(jsBoolean(ev.ret), Thrown(ev),
                                               Append(log2, ev), o, 0) }
                                ELSE functions(Append(log2, ev))
                                : ev \in Calls("setProperty", c, "class", jsClass.version,
                                              Form(jsClass.version), TRUE, TRUE) }
                         ELSE functions(log2)
                ELSE functions(log2)
    IN  \* lines 372-386
        IF setProperty \/ setPropertyEx
        THEN UNION {
               IF ev.ret \/ ev.exc
               THEN { Outcome(jsBoolean(ev.ret), Thrown(ev), Append(log, ev), o, 0) }
               ELSE values(Append(log, ev))
               : ev \in Calls("setProperty", c, "class", jsClass.version,
                             Form(jsClass.version), TRUE, TRUE) }
        ELSE values(log)

putByIndex(o, propertyIndex, value) ==
    putByIndexFrom(o, IdentifierFrom(propertyIndex), value, classRef, <<>>)

-----------------------------------------------------------------------------
(* JSCallbackObject::deleteProperty *)

RECURSIVE deletePropertyFrom(_, _, _, _)
deletePropertyFrom(o, name, c, log) ==
    IF c = nullptr
    THEN LET p == ParentDeleteProperty(o, name)
         IN  { Outcome(jsBoolean(p.ok), "none",
                       Append(log, Step("Parent::deleteProperty", nullptr, p.ok)),
                       p.own, 0) }
    ELSE
    LET jsClass == classes[c]
        \* lines 454-468
        statics(log1) ==
            LET foundV == contains(staticValues(c), name)
                log2 == Append(log1, Step("staticValues", c, foundV))
                foundF == contains(staticFunctions(c), name)
                log3 == Append(log2, Step("staticFunctions", c, foundF))
            IN  IF foundV
                THEN { Outcome(jsBoolean(kJSPropertyAttributeDontDelete
                                           \notin staticValues(c)[name].attributes),
                               "none", log2, o, 0) }
                ELSE IF foundF
                THEN { Outcome(jsBoolean(kJSPropertyAttributeDontDelete
                                           \notin staticFunctions(c)[name].attributes),
                               "none", log3, o, 0) }
                ELSE deletePropertyFrom(o, name, parentClass(c), log3)
    IN  \* lines 437-451
        IF jsClass.deleteProperty
        THEN UNION {
               IF ev.ret \/ ev.exc
               THEN { Outcome(jsTrue, Thrown(ev), Append(log, ev), o, 0) }
               ELSE statics(Append(log, ev))
               : ev \in Calls("deleteProperty", c, "class", jsClass.version,
                             Form(jsClass.version), TRUE, TRUE) }
        ELSE statics(log)

(* deleteProperty reporting success whatever DontDelete says *)
deleteProperty_DontDeleteUnchecked(o, name) ==
    { [out EXCEPT !.ret = jsTrue] : out \in deletePropertyFrom(o, name, classRef, <<>>) }

(* deleteProperty going on to the generic object after the callback's answer *)
deleteProperty_FallsThrough(o, name) ==
    { IF IsCallback(out.log[Len(out.log)]) /\ ~out.log[Len(out.log)].exc
      THEN LET p == ParentDeleteProperty(o, name)
           IN  Outcome(jsBoolean(p.ok), "none",
                       Append(out.log, Step("Parent::deleteProperty", nullptr, p.ok)),
                       p.own, 0)
      ELSE out
      : out \in deletePropertyFrom(o, name, classRef, <<>>) }

(* deleteProperty returning the callback's boolean when it threw *)
deleteProperty_ResultOnException(o, name) ==
    { IF out.log[Len(out.log)].exc
      THEN [out EXCEPT !.ret = jsBoolean(out.log[Len(out.log)].ret)]
      ELSE out
      : out \in deletePropertyFrom(o, name, classRef, <<>>) }

(* deleteProperty that also deletes the own property when a static entry answers *)
deleteProperty_StaticAlsoGeneric(o, name) ==
    { IF out.log[Len(out.log)].kind \in {"staticValues", "staticFunctions"}
      THEN [out EXCEPT !.own = ParentDeleteProperty(o, name).own]
      ELSE out
      : out \in deletePropertyFrom(o, name, classRef, <<>>) }

deleteProperty(o, name) == deletePropertyFrom(o, name, classRef, <<>>)

-----------------------------------------------------------------------------
(* JSCallbackObject::getStaticValue *)

(* A callback whose signature has no exception out-parameter. *)
CallsNoException(kind, c, owner, gen, form, dropped, relocked) ==
    { Cb(kind, c, owner, gen, form, dropped, relocked, r) : r \in {r \in Resp : ~r.exc} }

RECURSIVE getStaticValueFrom(_, _, _, _)
getStaticValueFrom(o, name, c, log) ==
    IF c = nullptr
    THEN { Outcome(Empty, "none", log, o, 0) }       \* return JSValue()
    ELSE
    LET found == contains(staticValues(c), name)
        log1 == Append(log, Step("staticValues", c, found))
    IN  IF found /\ staticValues(c)[name].getProperty
        THEN UNION {
               IF ev.exc
               THEN { Outcome(jsUndefined, "host", Append(log1, ev), o, 0) }
               ELSE IF ev.ret
               THEN { Outcome(Val("staticValue", c), "none", Append(log1, ev), o, 0) }
               ELSE getStaticValueFrom(o, name, parentClass(c), Append(log1, ev))
               : ev \in Calls("getProperty", c, "staticValue", staticValues(c)[name].version,
                             Form(staticValues(c)[name].version), TRUE, TRUE) }
        ELSE getStaticValueFrom(o, name, parentClass(c), log1)

getStaticValue(o, name, log) == getStaticValueFrom(o, name, classRef, log)

-----------------------------------------------------------------------------
(* JSCallbackObject::getOwnPropertySlot *)

(* The custom slots: the getter a later read of the slot evaluates. *)
callbackGetterSlot == Val("callbackGetter", 0)
staticFunctionGetterSlot == Val("staticFunctionGetter", 0)

(* Parent::getOwnPropertySlot as the final fallback: the own value, or       *)
(* not found (Empty).                                                        *)
getGeneric(o, name, log) ==
    Outcome(o[name].v, "none",
            Append(log, Step("Parent::getOwnPropertySlot", nullptr,
                             ParentGetOwnPropertySlot(o, name))), o, 0)

RECURSIVE getOwnPropertySlotFrom(_, _, _, _)
getOwnPropertySlotFrom(o, name, c, log) ==
    IF c = nullptr
    THEN { getGeneric(o, name, log) }
    ELSE
    LET jsClass == classes[c]
        \* lines 233-238
        functions(log2) ==
            LET found == contains(staticFunctions(c), name)
                log3 == Append(log2, Step("staticFunctions", c, found))
            IN  IF found
                THEN { Outcome(staticFunctionGetterSlot, "none", log3, o, 0) }
                ELSE getOwnPropertySlotFrom(o, name, parentClass(c), log3)
        \* lines 223-231
        values(log1) ==
            LET found == contains(staticValues(c), name)
                log2 == Append(log1, Step("staticValues", c, found))
            IN  IF found
                THEN UNION {
                       IF v.ret # Empty
                       THEN { v }
                       ELSE functions(v.log)
                       : v \in getStaticValue(o, name, log2) }
                ELSE functions(log2)
    IN  IF jsClass.hasProperty
        THEN \* lines 188-200: the guard lives to the end of the block
             UNION {
               IF ev.ret
               THEN { Outcome(callbackGetterSlot, "none", Append(log, ev), o, 0) }
               ELSE values(Append(log, ev))
               : ev \in CallsNoException("hasProperty", c, "class", jsClass.version,
                                        Form(jsClass.version), TRUE, FALSE) }
        ELSE IF jsClass.getProperty
        THEN \* lines 201-220
             UNION {
               IF ev.exc
               THEN { Outcome(jsUndefined, "host", Append(log, ev), o, 0) }
               ELSE IF ev.ret
               THEN { Outcome(Val("getProperty", c), "none", Append(log, ev), o, 0) }
               ELSE values(Append(log, ev))
               : ev \in Calls("getProperty", c, "class", jsClass.version,
                             Form(jsClass.version), TRUE, TRUE) }
        ELSE values(log)

(* getOwnPropertySlot asking getProperty too after hasProperty returned false *)
getOwnPropertySlot_GetAfterHas(o, name) ==
    { LET l == out.log
      IN  IF /\ l # <<>>
             /\ l[1].kind = "hasProperty" /\ ~l[1].ret
             /\ classes[classRef].getProperty
          THEN [out EXCEPT !.log =
                   <<l[1], Cb("getProperty", classRef, "class", classes[classRef].version,
                              Form(classes[classRef].version), TRUE, TRUE,
                              [ret |-> FALSE, exc |-> FALSE])>> \o Tail(l)]
          ELSE out
      : out \in getOwnPropertySlotFrom(o, name, classRef, <<>>) }

(* getOwnPropertySlot starting its lookup at the parent descriptor *)
getOwnPropertySlot_SkipsLeaf(o, name) ==
    getOwnPropertySlotFrom(o, name, parentClass(classRef), <<>>)

getOwnPropertySlot(o, name) == getOwnPropertySlotFrom(o, name, classRef, <<>>)

-----------------------------------------------------------------------------
(* JSCallbackObject::staticFunctionGetter *)

ReferenceError == Val("ReferenceError", 0)

RECURSIVE staticFunctionGetterFrom(_, _, _, _)
staticFunctionGetterFrom(o, name, c, log) ==
    IF c = nullptr
    THEN { Outcome(ReferenceError, "ReferenceError", log, o, 0) }    \* line 755
    ELSE
    LET found == contains(staticFunctions(c), name)
        log1 == Append(log, Step("staticFunctions", c, found))
    IN  IF found /\ staticFunctions(c)[name].callAsFunction
        THEN \* lines 740-749: JSCallbackFunction::create, then putDirect
             LET f == Val("JSCallbackFunction", created[name] + 1)
             IN  { Outcome(f, "none",
                           Append(log1, Step("JSCallbackFunction::create", c, TRUE)),
                           putDirect(o, name, f, staticFunctions(c)[name].attributes), 1) }
        ELSE staticFunctionGetterFrom(o, name, parentClass(c), log1)

(* staticFunctionGetter walking the chain for the entry before it returns the *)
(* property the instance holds *)
staticFunctionGetter_WalksFirst(o, name, log) ==
    IF ParentGetOwnPropertySlot(o, name)
    THEN { Outcome(o[name].v, "none",
                   Append(out.log, Step("Parent::getOwnPropertySlot", nullptr, TRUE)), o, 0)
           : out \in staticFunctionGetterFrom(o, name, classRef, log) }
    ELSE staticFunctionGetterFrom(o, name, classRef,
                   Append(log, Step("Parent::getOwnPropertySlot", nullptr, FALSE)))

(* staticFunctionGetter without its check for the cached property *)
staticFunctionGetter_NoCache(o, name, log) ==
    staticFunctionGetterFrom(o, name, classRef,
                   Append(log, Step("Parent::getOwnPropertySlot", nullptr, FALSE)))

(* staticFunctionGetter answering undefined where it found no callback *)
staticFunctionGetter_NoReferenceError(o, name, log) ==
    { IF out.thrown = "ReferenceError"
      THEN [out EXCEPT !.ret = jsUndefined, !.thrown = "none"]
      ELSE out
      : out \in IF ParentGetOwnPropertySlot(o, name)
                THEN { Outcome(o[name].v, "none",
                               Append(log, Step("Parent::getOwnPropertySlot", nullptr, TRUE)),
                               o, 0) }
                ELSE staticFunctionGetterFrom(o, name, classRef,
                         Append(log, Step("Parent::getOwnPropertySlot", nullptr, FALSE))) }

staticFunctionGetter(o, name, log) ==
    \* lines 731-734: check for cached or override property
    IF ParentGetOwnPropertySlot(o, name)
    THEN { Outcome(o[name].v, "none",
                   Append(log, Step("Parent::getOwnPropertySlot", nullptr, TRUE)), o, 0) }
    ELSE staticFunctionGetterFrom(o, name, classRef,
                   Append(log, Step("Parent::getOwnPropertySlot", nullptr, FALSE)))

-----------------------------------------------------------------------------
(* JSCallbackObject::callbackGetter *)

RECURSIVE callbackGetterFrom(_, _, _, _)
callbackGetterFrom(o, name, c, log) ==
    IF c = nullptr
    THEN { Outcome(ReferenceError, "ReferenceError", log, o, 0) }    \* line 794
    ELSE
    LET jsClass == classes[c]
    IN  IF jsClass.getProperty
        THEN UNION {
               IF ev.exc
               THEN { Outcome(jsUndefined, "host", Append(log, ev), o, 0) }
               ELSE IF ev.ret
               THEN { Outcome(Val("getProperty", c), "none", Append(log, ev), o, 0) }
               ELSE callbackGetterFrom(o, name, parentClass(c), Append(log, ev))
               : ev \in Calls("getProperty", c, "class", jsClass.version,
                             Form(jsClass.version), TRUE, TRUE) }
        ELSE callbackGetterFrom(o, name, parentClass(c), log)

(* callbackGetter reading undefined where no getProperty answers *)
callbackGetter_NoReferenceError(o, name, log) ==
    { IF out.thrown = "ReferenceError"
      THEN [out EXCEPT !.ret = jsUndefined, !.thrown = "none"]
      ELSE out
      : out \in callbackGetterFrom(o, name, classRef,
                                   Append(log, Step("callbackGetter", nullptr, TRUE))) }

(* callbackGetter starting its walk one descriptor too deep *)
callbackGetter_SkipsFirst(o, name, log) ==
    callbackGetterFrom(o, name, parentClass(classRef),
                       Append(log, Step("callbackGetter", nullptr, TRUE)))

(* callbackGetter starting at the descriptor whose hasProperty answered *)
callbackGetter_FromAnswerer(o, name, log) ==
    callbackGetterFrom(o, name, log[Len(log)].cls,
                       Append(log, Step("callbackGetter", nullptr, TRUE)))

callbackGetter(o, name, log) ==
    callbackGetterFrom(o, name, classRef, Append(log, Step("callbackGetter", nullptr, TRUE)))

-----------------------------------------------------------------------------
(* A read of a property: the slot lookup, then the slot's value.  A custom    *)
(* slot is evaluated by its getter; a lookup that finds nothing reads         *)
(* undefined.                                                                 *)
get(o, name) ==
    UNION { IF s.ret = callbackGetterSlot
            THEN callbackGetter(o, name, s.log)
            ELSE IF s.ret = staticFunctionGetterSlot
            THEN staticFunctionGetter(o, name,
                     Append(s.log, Step("staticFunctionGetter", nullptr, TRUE)))
            ELSE IF s.ret = Empty
            THEN { [s EXCEPT !.ret = jsUndefined] }
            ELSE { s }
            : s \in getOwnPropertySlot(o, name) }

-----------------------------------------------------------------------------
(* JSCallbackObject::defaultValue *)

(* A callback that returns nothing. *)
CallVoid(kind, c, owner, gen, form, dropped, relocked) ==
    Cb(kind, c, owner, gen, form, dropped, relocked, [ret |-> FALSE, exc |-> FALSE])

RECURSIVE defaultValueFrom(_, _, _)
defaultValueFrom(o, c, log) ==
    IF c = nullptr
    THEN { Outcome(Val("Parent::defaultValue", 0), "none",
                   Append(log, Step("Parent::defaultValue", nullptr, TRUE)), o, 0) }
    ELSE
    LET jsClass == classes[c]
    IN  IF jsClass.convertToType
        THEN \* lines 266-276: no DropAllLocks guard around the call
             UNION {
               IF ev.exc
               THEN { Outcome(jsUndefined, "host", Append(log, ev), o, 0) }
               ELSE IF ev.ret
               THEN { Outcome(Val("convertToType", c), "none", Append(log, ev), o, 0) }
               ELSE defaultValueFrom(o, parentClass(c), Append(log, ev))
               : ev \in Calls("convertToType", c, "class", jsClass.version,
                             Form(jsClass.version), FALSE, TRUE) }
        ELSE defaultValueFrom(o, parentClass(c), log)

defaultValue(o) == defaultValueFrom(o, classRef, <<>>)

-----------------------------------------------------------------------------
(* JSCallbackObject::getConstructData, construct, getCallData, call,          *)
(* customHasInstance                                                          *)

RECURSIVE getConstructDataFrom(_)
getConstructDataFrom(c) ==
    IF c = nullptr THEN "None"
    ELSE IF classes[c].callAsConstructor THEN "Host"
    ELSE getConstructDataFrom(parentClass(c))

getConstructData == getConstructDataFrom(classRef)

RECURSIVE constructFrom(_, _, _)
constructFrom(o, c, log) ==
    IF c = nullptr
    THEN \* RELEASE_ASSERT_NOT_REACHED()
         { Outcome(Empty, "RELEASE_ASSERT", log, o, 0) }
    ELSE
    LET jsClass == classes[c]
    IN  IF jsClass.callAsConstructor
        THEN { Outcome(IF ev.ret THEN Val("callAsConstructor", c) ELSE Empty,
                       Thrown(ev), Append(log, ev), o, 0)
               \* lines 516-521: toJS reads the result inside the guard's block
               : ev \in Calls("callAsConstructor", c, "class", jsClass.version,
                             Form(jsClass.version), TRUE, FALSE) }
        ELSE constructFrom(o, parentClass(c), log)

(* construct starting its walk at the parent of the instance's descriptor *)
construct_FromParent(o) == constructFrom(o, parentClass(classRef), <<>>)

construct(o) == constructFrom(o, classRef, <<>>)

RECURSIVE getCallDataFrom(_)
getCallDataFrom(c) ==
    IF c = nullptr THEN "None"
    ELSE IF classes[c].callAsFunction THEN "Host"
    ELSE getCallDataFrom(parentClass(c))

(* getCallData looking at the instance's own descriptor only *)
getCallData_LeafOnly ==
    IF classes[classRef].callAsFunction THEN "Host" ELSE "None"

getCallData == getCallDataFrom(classRef)

RECURSIVE callFrom(_, _, _)
callFrom(o, c, log) ==
    IF c = nullptr
    THEN \* RELEASE_ASSERT_NOT_REACHED()
         { Outcome(Empty, "RELEASE_ASSERT", log, o, 0) }
    ELSE
    LET jsClass == classes[c]
    IN  IF jsClass.callAsFunction
        THEN { Outcome(IF ev.ret THEN Val("callAsFunction", c) ELSE Empty,
                       Thrown(ev), Append(log, ev), o, 0)
               \* lines 597-602: toJS reads the result inside the guard's block
               : ev \in Calls("callAsFunction", c, "class", jsClass.version,
                             Form(jsClass.version), TRUE, FALSE) }
        ELSE callFrom(o, parentClass(c), log)

(* call without its DropAllLocks guard (line 599) *)
call_LockHeld(o) ==
    { [out EXCEPT !.log = [i \in DOMAIN out.log |-> [out.log[i] EXCEPT !.dropped = FALSE]]]
      : out \in callFrom(o, classRef, <<>>) }

call(o) == callFrom(o, classRef, <<>>)

RECURSIVE customHasInstanceFrom(_, _, _)
customHasInstanceFrom(o, c, log) ==
    IF c = nullptr
    THEN { Outcome(jsFalse, "none", log, o, 0) }
    ELSE
    LET jsClass == classes[c]
    IN  IF jsClass.hasInstance
        THEN { Outcome(jsBoolean(ev.ret), Thrown(ev), Append(log, ev), o, 0)
               : ev \in Calls("hasInstance", c, "class", jsClass.version,
                             Form(jsClass.version), TRUE, TRUE) }
        ELSE customHasInstanceFrom(o, parentClass(c), log)

(* customHasInstance starting its walk at the parent of the instance's descriptor *)
customHasInstance_FromParent(o) == customHasInstanceFrom(o, parentClass(classRef), <<>>)

customHasInstance(o) == customHasInstanceFrom(o, classRef, <<>>)

-----------------------------------------------------------------------------
(* JSCallbackObject::getOwnNonIndexPropertyNames *)

HostName == "x"     \* the name a getPropertyNames callback adds when it adds one

RECURSIVE getOwnNonIndexPropertyNamesFrom(_, _, _, _, _)
getOwnNonIndexPropertyNamesFrom(o, includeDontEnumProperties, c, log, propertyNames) ==
    IF c = nullptr
    THEN { [Outcome(jsUndefined, "none",
                    Append(log, Step("Parent::getOwnNonIndexPropertyNames", nullptr, TRUE)),
                    o, 0)
            EXCEPT !.names = propertyNames
                       \cup ParentGetOwnPropertyNames(o, includeDontEnumProperties)] }
    ELSE
    LET jsClass == classes[c]
        \* lines 630-657
        statics(log1, names1) ==
            LET valueNames ==
                    { n \in DOMAIN staticValues(c) :
                        /\ staticValues(c)[n].getProperty
                        /\ (kJSPropertyAttributeDontEnum \notin staticValues(c)[n].attributes
                            \/ includeDontEnumProperties) }
                functionNames ==
                    { n \in DOMAIN staticFunctions(c) :
                        kJSPropertyAttributeDontEnum \notin staticFunctions(c)[n].attributes
                        \/ includeDontEnumProperties }
                log3 == log1 \o << Step("staticValues", c, valueNames # {}),
                                   Step("staticFunctions", c, functionNames # {}) >>
            IN  getOwnNonIndexPropertyNamesFrom(o, includeDontEnumProperties, parentClass(c),
                                                log3, names1 \cup valueNames \cup functionNames)
    IN  \* lines 621-628: the callback adds to propertyNames itself
        IF jsClass.getPropertyNames
        THEN UNION {
               statics(Append(log, ev),
                       IF ev.ret THEN propertyNames \cup {HostName} ELSE propertyNames)
               : ev \in CallsNoException("getPropertyNames", c, "class", jsClass.version,
                                        Form(jsClass.version), TRUE, TRUE) }
        ELSE statics(log, propertyNames)

(* getOwnNonIndexPropertyNames that lists the DontEnum names whatever the mode *)
getOwnNonIndexPropertyNames_DontEnumIgnored(o, includeDontEnumProperties) ==
    getOwnNonIndexPropertyNamesFrom(o, TRUE, classRef, <<>>, {})

getOwnNonIndexPropertyNames(o, includeDontEnumProperties) ==
    getOwnNonIndexPropertyNamesFrom(o, includeDontEnumProperties, classRef, <<>>, {})

-----------------------------------------------------------------------------
(* JSCallbackObject::init, ~JSCallbackObject, setPrivate, getPrivate, inherits *)

(* lines 126-130: the chain from the instance's descriptor to the root *)
RECURSIVE initRoutinesFrom(_)
initRoutinesFrom(c) ==
    IF c = nullptr THEN <<>> ELSE <<c>> \o initRoutinesFrom(parentClass(c))

(* lines 133-143: i runs from size - 1 down to 0; a guard per iteration *)
RECURSIVE initLoop(_, _, _)
initLoop(initRoutines, i, log) ==
    IF i < 0 THEN log
    ELSE LET clazz == initRoutines[i + 1]
         IN  initLoop(initRoutines, i - 1,
                 IF classes[clazz].initialize
                 THEN Append(log, CallVoid("initialize", clazz, "class",
                                           classes[clazz].version,
                                           Form(classes[clazz].version), TRUE, TRUE))
                 ELSE log)

(* init running its loop from index 0 up: the leaf first *)
init_LeafFirst(o) ==
    LET initRoutines == initRoutinesFrom(classRef)
        log == initLoop(initRoutines, Len(initRoutines) - 1, <<>>)
    IN  Outcome(jsUndefined, "none",
                [i \in DOMAIN log |-> log[Len(log) + 1 - i]], o, 0)

init(o) ==
    LET initRoutines == initRoutinesFrom(classRef)
    IN  Outcome(jsUndefined, "none", initLoop(initRoutines, Len(initRoutines) - 1, <<>>), o, 0)

(* lines 90-97: no DropAllLocks guard around finalize *)
RECURSIVE destructorFrom(_, _)
destructorFrom(c, log) ==
    IF c = nullptr THEN log
    ELSE destructorFrom(parentClass(c),
             IF classes[c].finalize
             THEN Append(log, CallVoid("finalize", c, "class", classes[c].version,
                                       Form(classes[c].version), FALSE, TRUE))
             ELSE log)

destructor(o) == Outcome(jsUndefined, "none", destructorFrom(classRef, <<>>), o, 0)

RECURSIVE inheritsFrom(_, _)
inheritsFrom(jsClass, c) ==
    IF jsClass = nullptr THEN FALSE
    ELSE IF jsClass = c THEN TRUE
    ELSE inheritsFrom(parentClass(jsClass), c)

(* inherits that does not look at the instance's own descriptor *)
inherits_ParentsOnly(c) == inheritsFrom(parentClass(classRef), c)

inherits(c) == inheritsFrom(classRef, c)

-----------------------------------------------------------------------------
(* Class descriptors (OpaqueJSClass) and their static table entries.          *)
(* A callback field is TRUE when the pointer of the descriptor's generation   *)
(* (v0.* for version 0, v1000.*Ex for version 1000) is not null.              *)

Versions == {0, 1000}

CallbackKinds ==
    {"hasProperty", "getProperty", "setProperty", "deleteProperty", "getPropertyNames",
     "callAsFunction", "callAsConstructor", "hasInstance", "convertToType",
     "initialize", "finalize"}

JSClass(version, parent, callbacks, values, functions) ==
    [version |-> version, parentClass |-> parent,
     hasProperty |-> "hasProperty" \in callbacks,
     getProperty |-> "getProperty" \in callbacks,
     setProperty |-> "setProperty" \in callbacks,
     deleteProperty |-> "deleteProperty" \in callbacks,
     getPropertyNames |-> "getPropertyNames" \in callbacks,
     callAsFunction |-> "callAsFunction" \in callbacks,
     callAsConstructor |-> "callAsConstructor" \in callbacks,
     hasInstance |-> "hasInstance" \in callbacks,
     convertToType |-> "convertToType" \in callbacks,
     initialize |-> "initialize" \in callbacks,
     finalize |-> "finalize" \in callbacks,
     staticValues |-> values, staticFunctions |-> functions]

(* A table without entries, and a table with one entry, for StaticName.  An   *)
(* entry carries the generation of the descriptor it is registered on.        *)
NoTable == <<>>
StaticValueEntry(getProperty, setProperty, attributes) ==
    [getProperty |-> getProperty, setProperty |-> setProperty, attributes |-> attributes]
StaticFunctionEntry(callAsFunction, attributes) ==
    [callAsFunction |-> callAsFunction, attributes |-> attributes]
TableOf(version, e) ==
    IF e = NoTable THEN NoTable
    ELSE [n \in {StaticName} |-> [version |-> version] @@ e]

(* The descriptors a script may be run against, by what the embedder has     *)
(* registered: a shape is the callbacks of a descriptor and its entries for   *)
(* StaticName.                                                                *)
Shape(callbacks, value, function) ==
    [callbacks |-> callbacks, value |-> value, function |-> function]

RO == {kJSPropertyAttributeReadOnly}
DD == {kJSPropertyAttributeDontDelete}
DE == {kJSPropertyAttributeDontEnum}

(* Read: the dynamic read callbacks against a static value or a static      *)
(* function; a static value before a static function of the same name; and    *)
(* entries registered without a getter or without a callback.                 *)
ReadShapes ==
    { Shape(cbs, s[1], s[2]) :
        cbs \in SUBSET {"hasProperty", "getProperty"},
        s \in {<<NoTable, NoTable>>,
               <<StaticValueEntry(TRUE, FALSE, {}), NoTable>>,
               <<NoTable, StaticFunctionEntry(TRUE, {})>>} }
    \cup { Shape({}, s[1], s[2]) :
        s \in {<<StaticValueEntry(TRUE, FALSE, {}), StaticFunctionEntry(TRUE, {})>>,
               <<StaticValueEntry(FALSE, FALSE, {}), StaticFunctionEntry(TRUE, {})>>,
               <<StaticValueEntry(FALSE, FALSE, {}), NoTable>>,
               <<NoTable, StaticFunctionEntry(FALSE, {})>>} }

(* Write: setProperty against a static value that is read-only, writable      *)
(* with a setter or without one, and a static function, read-only or not.     *)
WriteShapes ==
    { Shape(cbs, v, NoTable) :
        cbs \in SUBSET {"setProperty"},
        v \in {NoTable, StaticValueEntry(TRUE, TRUE, RO), StaticValueEntry(TRUE, TRUE, {}),
               StaticValueEntry(TRUE, FALSE, {})} }
    \cup { Shape(cbs, NoTable, f) :
        cbs \in SUBSET {"setProperty"},
        f \in {StaticFunctionEntry(TRUE, RO), StaticFunctionEntry(TRUE, {})} }
    \cup { Shape({}, v, StaticFunctionEntry(TRUE, {})) :
        v \in {StaticValueEntry(TRUE, TRUE, RO), StaticValueEntry(TRUE, TRUE, {})} }

(* Delete: deleteProperty against a static value or a static function,       *)
(* DontDelete or not; and a static value before a static function.            *)
DeleteShapes ==
    { Shape(cbs, s[1], s[2]) :
        cbs \in SUBSET {"deleteProperty"},
        s \in {<<NoTable, NoTable>>,
               <<StaticValueEntry(TRUE, FALSE, DD), NoTable>>,
               <<StaticValueEntry(TRUE, FALSE, {}), NoTable>>,
               <<NoTable, StaticFunctionEntry(TRUE, DD)>>,
               <<NoTable, StaticFunctionEntry(TRUE, {})>>} }
    \cup { Shape({}, s[1], s[2]) :
        s \in {<<StaticValueEntry(TRUE, FALSE, {}), StaticFunctionEntry(TRUE, DD)>>,
               <<StaticValueEntry(TRUE, FALSE, DD), StaticFunctionEntry(TRUE, {})>>} }

(* Enumerate: getPropertyNames against static entries, DontEnum or not. *)
EnumerateShapes ==
    { Shape(cbs, v, f) :
        cbs \in SUBSET {"getPropertyNames"},
        v \in {NoTable, StaticValueEntry(TRUE, FALSE, DE), StaticValueEntry(TRUE, FALSE, {}),
               StaticValueEntry(FALSE, TRUE, {})},
        f \in {NoTable, StaticFunctionEntry(TRUE, DE), StaticFunctionEntry(TRUE, {})} }

InvokeShapes ==
    { Shape(cbs, NoTable, NoTable) :
        cbs \in SUBSET {"callAsFunction", "callAsConstructor", "hasInstance", "convertToType"} }

LifecycleShapes ==
    { Shape(cbs, NoTable, NoTable) : cbs \in SUBSET {"initialize", "finalize"} }

(* Every callback at once: a descriptor with all of them, with all but        *)
(* hasProperty (which hides the eager getProperty) or with none, with a       *)
(* static value and a static function or without.                             *)
AllShapes ==
    { Shape(cbs, s[1], s[2]) :
        cbs \in {{}, CallbackKinds, CallbackKinds \ {"hasProperty"}},
        s \in {<<NoTable, NoTable>>,
               <<StaticValueEntry(TRUE, TRUE, {}), StaticFunctionEntry(TRUE, {})>>} }

(* The chains of n descriptors with the given shapes: c's parent is c + 1,    *)
(* the last one has none.                                                     *)
Chain(n, shape, version) ==
    [c \in 1..n |->
        JSClass(version[c], IF c < n THEN c + 1 ELSE nullptr, shape[c].callbacks,
                TableOf(version[c], shape[c].value),
                TableOf(version[c], shape[c].function))]

(* ... all of one generation *)
UniformChains(shapes) ==
    UNION { { Chain(n, shape, [c \in 1..n |-> version])
              : shape \in [1..n -> shapes], version \in Versions }
            : n \in 1..MaxDepth }

(* ... of any generations *)
MixedChains(shapes) ==
    UNION { { Chain(n, shape, version)
              : shape \in [1..n -> shapes], version \in [1..n -> Versions] }
            : n \in 1..MaxDepth }

PrivateValues == {nullptr, 1}

-----------------------------------------------------------------------------
(* The state machine: one instance, from its construction to its destruction. *)
(* An operation is one step: the handler runs to its return and leaves its     *)
(* outcome in last; Return hands the outcome to the caller, and the instance   *)
(* is idle until the next operation.                                           *)

Did(op, name, value, arg, out) ==
    [op |-> op, name |-> name, value |-> value, arg |-> arg, before |-> own,
     ret |-> out.ret, thrown |-> out.thrown, log |-> out.log, made |-> out.made,
     names |-> out.names]

NoOwn == [n \in Names |-> NoProperty]

Idle ==
    [op |-> "idle", name |-> "", value |-> Empty, arg |-> 0, before |-> NoOwn,
     ret |-> jsUndefined, thrown |-> "none", log |-> <<>>, made |-> 0, names |-> {}]

(* no chain loop in progress *)
NoWalk ==
    [op |-> "none", arg |-> nullptr, jsClass |-> nullptr, outer |-> nullptr,
     pc |-> "idle", answered |-> FALSE, steps |-> 0]

(* readFileToString not called; no handle open in the file system.           *)
(* pc: where the call is; fs, handle, fileSize: its locals; path: how it      *)
(* left; result: what it returned; calls: the calls so far; opened, open:     *)
(* the handles OpenFile has handed out and those not closed; closes: the      *)
(* handles CloseFile was given, in order; invalidCloses: the CloseFile calls  *)
(* with invalidFileHandle.                                                    *)
NoFile ==
    [pc |-> "idle", fs |-> FALSE, handle |-> 0, fileSize |-> 0, path |-> "",
     result |-> "", calls |-> 0, opened |-> {}, open |-> {}, closes |-> <<>>,
     invalidCloses |-> 0]

(* JSCallbackObject::JSCallbackObject(exec, structure, jsClass, data) *)
Constructed(chains, datas) ==
    /\ walk = NoWalk
    /\ file = NoFile
    /\ classes \in chains
    /\ phase = "constructed"
    /\ own = NoOwn
    /\ privateData \in datas
    /\ created = [n \in Names |-> 0]
    /\ lifecycle = <<>>
    /\ last = Idle

Init == Constructed(UniformChains(AllShapes), PrivateValues)
InitRead == Constructed(UniformChains(ReadShapes), {nullptr})
InitWrite == Constructed(UniformChains(WriteShapes), {nullptr})
InitDelete == Constructed(UniformChains(DeleteShapes), {nullptr})

(* finishCreation: init(exec) *)
FinishCreation ==
    /\ phase = "constructed"
    /\ LET out == init(own)
       IN  /\ last' = Did("init", "", Empty, 0, out)
           /\ lifecycle' = lifecycle \o out.log
    /\ phase' = "live"
    /\ UNCHANGED <<classes, own, privateData, created>>
    /\ UNCHANGED <<walk, file>>

(* An operation of a live instance with the outcomes outs. *)
Operation(op, name, value, arg, outs) ==
    /\ phase = "live"
    /\ last = Idle
    /\ \E out \in outs :
          /\ own' = out.own
          /\ created' = IF out.made = 0 THEN created
                        ELSE [created EXCEPT ![name] = @ + out.made]
          /\ last' = Did(op, name, value, arg, out)
    /\ UNCHANGED <<classes, phase, privateData, lifecycle>>
    /\ UNCHANGED <<walk, file>>

Get(name) == Operation("get", name, Empty, 0, get(own, name))

Has(name) == Operation("getOwnPropertySlot", name, Empty, 0, getOwnPropertySlot(own, name))

Put(name, value) == Operation("put", name, value, 0, put(own, name, value))

PutByIndex(i, value) ==
    Operation("putByIndex", IdentifierFrom(i), value, i, putByIndex(own, i, value))

DeleteProperty(name) == Operation("deleteProperty", name, Empty, 0, deleteProperty(own, name))

GetOwnNonIndexPropertyNames(includeDontEnumProperties) ==
    Operation("getOwnNonIndexPropertyNames", "", Empty,
              IF includeDontEnumProperties THEN 1 ELSE 0,
              getOwnNonIndexPropertyNames(own, includeDontEnumProperties))

DefaultValue == Operation("defaultValue", "", Empty, 0, defaultValue(own))

GetCallData ==
    Operation("getCallData", "", Empty, 0, {Outcome(Val(getCallData, 0), "none", <<>>, own, 0)})

GetConstructData ==
    Operation("getConstructData", "", Empty, 0,
              {Outcome(Val(getConstructData, 0), "none", <<>>, own, 0)})

(* The engine calls call / construct only through the function pointer that   *)
(* getCallData / getConstructData hands out.                                  *)
Call == getCallData = "Host" /\ Operation("call", "", Empty, 0, call(own))

Construct == getConstructData = "Host" /\ Operation("construct", "", Empty, 0, construct(own))

CustomHasInstance == Operation("customHasInstance", "", Empty, 0, customHasInstance(own))

Inherits(c) ==
    Operation("inherits", "", Empty, c, {Outcome(jsBoolean(inherits(c)), "none", <<>>, own, 0)})

SetPrivate(data) ==
    /\ phase = "live"
    /\ last = Idle
    /\ privateData' = data
    /\ last' = Did("setPrivate", "", Empty, data, Outcome(jsUndefined, "none", <<>>, own, 0))
    /\ UNCHANGED <<classes, phase, own, created, lifecycle>>
    /\ UNCHANGED <<walk, file>>

GetPrivate ==
    /\ phase = "live"
    /\ last = Idle
    /\ last' = Did("getPrivate", "", Empty, privateData,
                   Outcome(jsUndefined, "none", <<>>, own, 0))
    /\ UNCHANGED <<classes, phase, own, privateData, created, lifecycle>>
    /\ UNCHANGED <<walk, file>>

(* The handler has returned: its outcome goes to the caller. *)
Return ==
    /\ last # Idle
    /\ phase # "destroyed"
    /\ last' = Idle
    /\ UNCHANGED <<classes, phase, own, privateData, created, lifecycle>>
    /\ UNCHANGED <<walk, file>>

(* ~JSCallbackObject that clears the private-data pointer *)
Destroy_ClearsPrivate ==
    /\ phase = "live"
    /\ last = Idle
    /\ LET out == destructor(own)
       IN  /\ last' = Did("~JSCallbackObject", "", Empty, 0, out)
           /\ lifecycle' = lifecycle \o out.log
    /\ phase' = "destroyed"
    /\ privateData' = nullptr
    /\ UNCHANGED <<classes, own, created>>
    /\ UNCHANGED <<walk, file>>

(* ~JSCallbackObject *)
Destroy ==
    /\ phase = "live"
    /\ last = Idle
    /\ LET out == destructor(own)
       IN  /\ last' = Did("~JSCallbackObject", "", Empty, 0, out)
           /\ lifecycle' = lifecycle \o out.log
    /\ phase' = "destroyed"
    /\ UNCHANGED <<classes, own, privateData, created>>
    /\ UNCHANGED <<walk, file>>

PropertyNext(values) ==
    \/ \E name \in Names : Get(name)
    \/ \E name \in Names : Has(name)
    \/ \E name \in Names, value \in values : Put(name, value)
    \/ \E i \in Indices, value \in values : PutByIndex(i, value)
    \/ \E name \in Names : DeleteProperty(name)
    \/ \E mode \in BOOLEAN : GetOwnNonIndexPropertyNames(mode)

InvokeNext ==
    \/ DefaultValue
    \/ GetCallData
    \/ GetConstructData
    \/ Call
    \/ Construct
    \/ CustomHasInstance

EmbedderNext ==
    \/ \E c \in 1..(MaxDepth + 1) : Inherits(c)
    \/ \E data \in PrivateValues : SetPrivate(data)
    \/ GetPrivate

Next ==
    FinishCreation \/ PropertyNext({OneValue}) \/ InvokeNext \/ EmbedderNext \/ Return
        \/ Destroy

NextProperty == FinishCreation \/ PropertyNext({OneValue}) \/ Return \/ Destroy

NextWrite == FinishCreation \/ PropertyNext(PutValues) \/ Return \/ Destroy

(* The reads of every name, and the writes and deletions of the name the     *)
(* static tables hold, which change what a read of it finds on the instance.  *)
NextRead ==
    \/ FinishCreation
    \/ \E name \in Names : Get(name)
    \/ \E name \in Names : Has(name)
    \/ Put(StaticName, OneValue)
    \/ DeleteProperty(StaticName)
    \/ Return
    \/ Destroy

(* The embedder's operations, on descriptors of any generations. *)
InitLifecycle == Constructed(MixedChains(LifecycleShapes), PrivateValues)

NextLifecycle == FinishCreation \/ EmbedderNext \/ Return \/ Destroy

(* The invocation operations, on descriptors of any generations. *)
InitInvoke == Constructed(MixedChains(InvokeShapes), {nullptr})

NextInvoke == FinishCreation \/ InvokeNext \/ Return \/ Destroy

(* Enumeration, and the reads that install callables on the instance. *)
InitEnumerate == Constructed(UniformChains(EnumerateShapes), {nullptr})

NextEnumerate ==
    \/ FinishCreation
    \/ \E name \in Names : Get(name)
    \/ \E mode \in BOOLEAN : GetOwnNonIndexPropertyNames(mode)
    \/ Return
    \/ Destroy

(* Every operation, on descriptors that define every callback or none. *)
Spec == Init /\ [][Next]_vars

(* The property operations, on the descriptors of one family. *)
SpecRead == InitRead /\ [][NextRead]_vars
SpecWrite == InitWrite /\ [][NextWrite]_vars
SpecDelete == InitDelete /\ [][NextProperty]_vars

SpecEnumerate == InitEnumerate /\ [][NextEnumerate]_vars

SpecInvoke == InitInvoke /\ [][NextInvoke]_vars
SpecLifecycle == InitLifecycle /\ [][NextLifecycle]_vars

-----------------------------------------------------------------------------
(* Properties.  They read the outcome of the operation that has just run.     *)

Log == last.log
Events == DOMAIN last.log
CallbackEvents == { i \in Events : IsCallback(Log[i]) }

LockHeldKinds == {"convertToType", "finalize"}

-----------------------------------------------------------------------------
(* Reads through a chain of descriptors *)

IsRead == last.op \in {"get", "getOwnPropertySlot"}

(* The dynamic callbacks of a descriptor that answer a read. *)
HasAnswered(e) == IsCallback(e) /\ e.kind = "hasProperty" /\ e.owner = "class" /\ e.ret
GetAnswered(e) == IsCallback(e) /\ e.kind = "getProperty" /\ e.owner = "class"
                  /\ (e.ret \/ e.exc)

(* The position in the log at which callbackGetter starts, 0 if it never ran. *)
GetterStart ==
    IF \E i \in Events : Log[i].kind = "callbackGetter"
    THEN CHOOSE i \in Events : Log[i].kind = "callbackGetter"
    ELSE 0

(* C2, as claimed: when the most-derived descriptor's hasProperty returns     *)
(* true or its getProperty yields a value, no callback of a base descriptor   *)
(* is invoked for that read, callbackGetter included.                         *)
C2_BaseNeverCalledOnceAnswered ==
    (/\ IsRead
     /\ Len(classes) >= 2
     /\ \E i \in Events : Log[i].cls = classRef /\ (HasAnswered(Log[i]) \/ GetAnswered(Log[i])))
    => \A j \in CallbackEvents : Log[j].cls = classRef

(* C2, amended: once the most-derived descriptor's getProperty yields a value *)
(* (or throws) nothing at all is invoked after it; once its hasProperty       *)
(* returns true the slot lookup invokes nothing more, and the only callbacks  *)
(* that follow are the getProperty calls of callbackGetter, which walks the   *)
(* chain again from the most-derived descriptor and reaches the getProperty   *)
(* of a base descriptor only past descriptors that define no getProperty or   *)
(* whose getProperty yielded nothing.                                         *)
C2_FirstResponderStopsLookup ==
    (IsRead /\ Len(classes) >= 2)
    => \A i \in Events :
          Log[i].cls = classRef =>
            /\ GetAnswered(Log[i]) => i = Len(Log)
            /\ HasAnswered(Log[i]) =>
                 /\ last.op = "getOwnPropertySlot" => i = Len(Log)
                 /\ last.op = "get" => GetterStart = i + 1
                 /\ \A j \in CallbackEvents :
                       j > i =>
                         /\ Log[j].kind = "getProperty" /\ Log[j].owner = "class"
                         /\ \A d \in 1..(Log[j].cls - 1) :
                               classes[d].getProperty =>
                                  \E k \in (i + 1)..(j - 1) :
                                     /\ Log[k].cls = d /\ Log[k].kind = "getProperty"
                                     /\ ~Log[k].ret /\ ~Log[k].exc

(* The most-derived descriptor's getProperty yielded the value of a read      *)
(* although the base descriptor defines callbacks of its own: none of them    *)
(* ran.                                                                       *)
C2_Witness ==
    /\ last.op = "get"
    /\ Len(classes) >= 2
    /\ classes[2].getProperty /\ classes[2].hasProperty
    /\ Log # <<>>
    /\ Log[Len(Log)].cls = classRef /\ GetAnswered(Log[Len(Log)]) /\ Log[Len(Log)].ret
    /\ last.ret = Val("getProperty", classRef)
    /\ \A j \in CallbackEvents : Log[j].cls = classRef

-----------------------------------------------------------------------------
(* Exceptions of host callbacks *)

ThrowingOps == {"get", "put", "putByIndex", "deleteProperty", "call", "construct",
                "customHasInstance", "defaultValue"}

(* C3: in a get, set, delete, call, construct, hasInstance or type            *)
(* conversion, once a callback has set its exception the exception is thrown, *)
(* and the handler invokes no further callback, looks into no further static  *)
(* table and does not fall back to the generic object: the callback is the    *)
(* last thing the handler did.                                                *)
C3_ExceptionEndsHandler ==
    last.op \in ThrowingOps
    => \A i \in CallbackEvents :
          Log[i].exc => (i = Len(Log) /\ last.thrown = "host")

(* A set whose first setProperty callback threw, on a chain whose deeper      *)
(* descriptor has a setProperty callback and static tables that were never    *)
(* consulted.                                                                 *)
C3_Witness ==
    /\ last.op = "put"
    /\ Len(classes) = 2
    /\ classes[2].setProperty
    /\ contains(staticValues(classRef), StaticName)
    /\ Len(Log) = 1
    /\ Log[1].kind = "setProperty" /\ Log[1].exc
    /\ last.thrown = "host"
    /\ own = last.before

-----------------------------------------------------------------------------
(* Sets *)

ClassSetProperty(e) == IsCallback(e) /\ e.kind = "setProperty" /\ e.owner = "class"
StaticSetter(e) == IsCallback(e) /\ e.kind = "setProperty" /\ e.owner = "staticValue"

(* C4, as claimed: the result of a descriptor's setProperty callback is what  *)
(* the set returns, and nothing is consulted after the callback.              *)
C4_SetPropertyAlwaysAuthoritative ==
    last.op = "put"
    => \A i \in Events :
          ClassSetProperty(Log[i]) =>
             (i = Len(Log) /\ last.ret = jsBoolean(Log[i].ret))

(* C4, amended: the setProperty callback of a descriptor the walk reaches is  *)
(* authoritative when it returns true or sets its exception: the set returns  *)
(* the callback's result, nothing is consulted after it and the instance is   *)
(* left as it was.  When it returns false without an exception the set goes   *)
(* on with the static-value table of the same descriptor.                     *)
C4_SetPropertyAuthoritativeUnlessDeclined ==
    last.op = "put"
    => \A i \in Events :
          ClassSetProperty(Log[i]) =>
             IF Log[i].ret \/ Log[i].exc
             THEN /\ i = Len(Log)
                  /\ last.ret = jsBoolean(Log[i].ret)
                  /\ own = last.before
             ELSE /\ i < Len(Log)
                  /\ Log[i + 1] = Step("staticValues", Log[i].cls,
                                       contains(staticValues(Log[i].cls), last.name))

(* The setProperty callback of the most-derived descriptor accepted a set of  *)
(* a name for which the descriptor has a writable static value and a base     *)
(* descriptor has a setProperty callback: none of them was consulted.         *)
C4_Witness ==
    /\ last.op = "put"
    /\ Len(classes) = 2
    /\ classes[2].setProperty
    /\ contains(staticValues(classRef), last.name)
    /\ kJSPropertyAttributeReadOnly \notin staticValues(classRef)[last.name].attributes
    /\ Len(Log) = 1
    /\ ClassSetProperty(Log[1]) /\ Log[1].ret /\ ~Log[1].exc
    /\ last.ret = jsTrue

(* C5, as claimed: where the descriptor defines no setProperty and has a      *)
(* static value for the name that is not read-only and has a setter, the set  *)
(* that reaches the entry invokes the setter and returns its result.          *)
C5_StaticSetterInvoked ==
    last.op = "put"
    => \A i \in Events :
          (/\ Log[i] = Step("staticValues", Log[i].cls, TRUE)
           /\ ~classes[Log[i].cls].setProperty
           /\ kJSPropertyAttributeReadOnly
                 \notin staticValues(Log[i].cls)[last.name].attributes
           /\ staticValues(Log[i].cls)[last.name].setProperty)
          => /\ i < Len(Log)
             /\ StaticSetter(Log[i + 1]) /\ Log[i + 1].cls = Log[i].cls
             /\ last.ret = jsBoolean(Log[i + 1].ret)

ReadOnlyValue(c, name) ==
    /\ contains(staticValues(c), name)
    /\ kJSPropertyAttributeReadOnly \in staticValues(c)[name].attributes

(* C6, as claimed: a set of a name with a read-only static value somewhere in *)
(* the chain returns false, invokes no callback and changes nothing.          *)
C6_ReadOnlyAlwaysFailsSilently ==
    (last.op = "put" /\ \E c \in DOMAIN classes : ReadOnlyValue(c, last.name))
    => /\ last.ret = jsFalse
       /\ CallbackEvents = {}
       /\ own = last.before

(* C6, amended: a set that reaches a read-only static value (every            *)
(* setProperty callback from the most-derived descriptor to the entry's has   *)
(* declined, and no static function of a more-derived descriptor took the     *)
(* set) returns false there, never invokes the entry's setter, and changes    *)
(* nothing.  The callbacks invoked before it are setProperty callbacks and    *)
(* setters of more-derived writable entries, all of which declined: none at   *)
(* all when none of those descriptors defines setProperty and the entry is    *)
(* the first static value for the name in chain order.  A read that gets a    *)
(* value from the entry's getter returns that value.                          *)
C6_ReadOnlyFailsWhenReached ==
    /\ last.op = "put"
       => \A i \in Events :
             (/\ Log[i] = Step("staticValues", Log[i].cls, TRUE)
              /\ ReadOnlyValue(Log[i].cls, last.name))
             => /\ i = Len(Log)
                /\ last.ret = jsFalse /\ last.thrown = "none"
                /\ own = last.before
                /\ \A j \in CallbackEvents :
                      /\ ClassSetProperty(Log[j])
                         \/ (StaticSetter(Log[j]) /\ Log[j].cls < Log[i].cls)
                      /\ ~Log[j].ret /\ ~Log[j].exc
                /\ (/\ \A d \in 1..Log[i].cls : ~classes[d].setProperty
                    /\ \A d \in 1..(Log[i].cls - 1) : ~contains(staticValues(d), last.name))
                      => CallbackEvents = {}
    /\ last.op = "get"
       => \A i \in CallbackEvents :
             (/\ Log[i].kind = "getProperty" /\ Log[i].owner = "staticValue"
              /\ ReadOnlyValue(Log[i].cls, last.name)
              /\ Log[i].ret /\ ~Log[i].exc)
             => /\ last.ret = Val("staticValue", Log[i].cls)
                /\ own = last.before

(* A set reached the read-only static value of the base descriptor past a     *)
(* most-derived descriptor without setProperty: it failed, nothing was        *)
(* invoked, nothing changed.                                                  *)
C6_Witness ==
    /\ last.op = "put"
    /\ Len(classes) = 2
    /\ ReadOnlyValue(2, last.name)
    /\ Log # <<>>
    /\ Log[Len(Log)] = Step("staticValues", 2, TRUE)
    /\ last.ret = jsFalse
    /\ CallbackEvents = {}
    /\ own = last.before

-----------------------------------------------------------------------------
(* Deletes *)

IsDelete == last.op = "deleteProperty"
DeleteCallback(e) == IsCallback(e) /\ e.kind = "deleteProperty"

HasStaticEntry(c, name) ==
    contains(staticValues(c), name) \/ contains(staticFunctions(c), name)

(* The entry of descriptor c a delete of the name looks at: the static value  *)
(* before the static function.                                                *)
StaticEntry(c, name) ==
    IF contains(staticValues(c), name)
    THEN staticValues(c)[name]
    ELSE staticFunctions(c)[name]

DontDeleteEntry(c, name) ==
    \/ /\ contains(staticValues(c), name)
       /\ kJSPropertyAttributeDontDelete \in staticValues(c)[name].attributes
    \/ /\ contains(staticFunctions(c), name)
       /\ kJSPropertyAttributeDontDelete \in staticFunctions(c)[name].attributes

(* C7, as claimed: a delete of a name with a DontDelete static entry          *)
(* somewhere in the chain returns false, and invokes no deleteProperty        *)
(* callback of a descriptor deeper than the entry's.                          *)
C7_DontDeleteAlwaysRefuses ==
    IsDelete
    => \A c \in DOMAIN classes :
          DontDeleteEntry(c, last.name) =>
             /\ last.ret = jsFalse
             /\ \A j \in CallbackEvents : DeleteCallback(Log[j]) => Log[j].cls <= c

(* C7, amended: a delete of a name with a DontDelete static entry invokes no  *)
(* deleteProperty callback of a descriptor deeper than the entry's; it        *)
(* returns false, leaving the instance as it was, when the walk reaches the   *)
(* entry: that is when the entry is the first static entry for the name in    *)
(* chain order (the static value before the static function of a descriptor)  *)
(* and every deleteProperty callback before it declined.  A callback that     *)
(* returns true or throws, or an earlier entry without the flag, makes the    *)
(* delete return true instead.                                                *)
C7_DontDeleteRefusesWhenReached ==
    IsDelete
    => \A c \in DOMAIN classes :
          DontDeleteEntry(c, last.name) =>
             /\ \A j \in CallbackEvents : DeleteCallback(Log[j]) => Log[j].cls <= c
             /\ (/\ \A d \in 1..(c - 1) : ~HasStaticEntry(d, last.name)
                 /\ kJSPropertyAttributeDontDelete \in StaticEntry(c, last.name).attributes)
                => /\ own = last.before
                   /\ last.ret = jsBoolean(\E j \in CallbackEvents : Log[j].ret \/ Log[j].exc)

(* A delete reached the DontDelete entry of the most-derived descriptor, was  *)
(* refused, and the deleteProperty callback of the base descriptor never ran. *)
C7_Witness ==
    /\ IsDelete
    /\ Len(classes) = 2
    /\ classes[2].deleteProperty
    /\ DontDeleteEntry(classRef, last.name)
    /\ kJSPropertyAttributeDontDelete \in StaticEntry(classRef, last.name).attributes
    /\ last.ret = jsFalse
    /\ \A j \in CallbackEvents : Log[j].cls = classRef

(* C8, as claimed: the answer of a deleteProperty callback that sets no       *)
(* exception is the result of the delete, nothing being consulted after it.   *)
C8_DeleteCallbackAlwaysAnswers ==
    IsDelete
    => \A i \in Events :
          (DeleteCallback(Log[i]) /\ ~Log[i].exc) =>
             (i = Len(Log) /\ last.ret = jsBoolean(Log[i].ret))

(* C8, amended: a deleteProperty callback that returns true without an        *)
(* exception answers the delete: it returns true, and neither the static      *)
(* tables nor a deeper descriptor nor the generic delete is consulted.  One   *)
(* that returns false without an exception answers nothing: the delete goes   *)
(* on with the static tables of the same descriptor.                          *)
C8_DeleteCallbackAnswersWhenTrue ==
    IsDelete
    => \A i \in Events :
          (DeleteCallback(Log[i]) /\ ~Log[i].exc) =>
             IF Log[i].ret
             THEN /\ i = Len(Log)
                  /\ last.ret = jsTrue
                  /\ own = last.before
             ELSE /\ i < Len(Log)
                  /\ Log[i + 1] = Step("staticValues", Log[i].cls,
                                       contains(staticValues(Log[i].cls), last.name))

(* The deleteProperty callback of the most-derived descriptor returned true   *)
(* for a name the descriptor has a DontDelete static entry for, above a base  *)
(* descriptor with a callback of its own: the delete returned true at once.   *)
C8_Witness ==
    /\ IsDelete
    /\ Len(classes) = 2
    /\ classes[2].deleteProperty
    /\ DontDeleteEntry(classRef, last.name)
    /\ Len(Log) = 1
    /\ DeleteCallback(Log[1]) /\ Log[1].ret /\ ~Log[1].exc
    /\ last.ret = jsTrue

-----------------------------------------------------------------------------
(* Reads answered by hasProperty, and static functions *)

(* C9, as claimed: after the hasProperty of a descriptor returned true, the   *)
(* read throws a ReferenceError if that descriptor has no getProperty, and    *)
(* returns the value of that descriptor's getProperty if it has one.          *)
C9_GetterOfAnsweringDescriptor ==
    last.op = "get"
    => \A i \in Events :
          HasAnswered(Log[i]) =>
             IF classes[Log[i].cls].getProperty
             THEN last.ret = Val("getProperty", Log[i].cls) /\ last.thrown = "none"
             ELSE last.ret = ReferenceError /\ last.thrown = "ReferenceError"

(* C9, amended: after the hasProperty of a descriptor returned true, the read *)
(* is evaluated by callbackGetter, which asks the getProperty callbacks of    *)
(* the whole chain from the most-derived descriptor on, whichever descriptor  *)
(* answered hasProperty.  The read returns the value of the first getProperty *)
(* that yields one, throws the exception of one that sets it, and throws a    *)
(* ReferenceError exactly when every getProperty of the chain yields nothing  *)
(* without an exception, as when no descriptor defines getProperty.  The      *)
(* answering descriptor's own getProperty gives the value only if it yields   *)
(* one and no getProperty of a more-derived descriptor answered before it.    *)
C9_GetterWalksWholeChain ==
    last.op = "get"
    => \A i \in Events :
          HasAnswered(Log[i]) =>
             LET asked == { j \in CallbackEvents : j > i }
                 answered == { j \in asked : Log[j].ret \/ Log[j].exc }
             IN  /\ \A j \in asked : Log[j].kind = "getProperty" /\ Log[j].owner = "class"
                 /\ \A d \in DOMAIN classes :
                       (classes[d].getProperty /\ \A j \in answered : Log[j].cls >= d)
                       => \E j \in asked : Log[j].cls = d
                 /\ \A j \in asked : classes[Log[j].cls].getProperty
                 /\ \A j \in answered :
                       /\ j = Len(Log)
                       /\ IF Log[j].exc
                          THEN last.thrown = "host"
                          ELSE /\ last.ret = Val("getProperty", Log[j].cls)
                               /\ last.thrown = "none"
                 /\ (answered = {}) <=>
                       (last.ret = ReferenceError /\ last.thrown = "ReferenceError")
                 /\ own = last.before

(* hasProperty of the most-derived descriptor, which has no getProperty,      *)
(* returned true, the getProperty of the base descriptor yielded nothing:     *)
(* the read threw a ReferenceError.                                           *)
C9_Witness ==
    /\ last.op = "get"
    /\ Len(classes) = 2
    /\ ~classes[classRef].getProperty /\ classes[2].getProperty
    /\ Len(Log) = 3
    /\ HasAnswered(Log[1]) /\ Log[1].cls = classRef
    /\ Log[3].kind = "getProperty" /\ Log[3].cls = 2 /\ ~Log[3].ret /\ ~Log[3].exc
    /\ last.ret = ReferenceError /\ last.thrown = "ReferenceError"

StaticFunctionName(name) ==
    \E c \in DOMAIN classes : contains(staticFunctions(c), name)

Overridden(o, name) == o[name].v.t = "script"

TheCallable == Val("JSCallbackFunction", 1)

(* C10, as claimed: every read of a name with a static function in the chain  *)
(* that no set has overridden returns the one callable created for the name.  *)
C10_EveryReadGivesTheCallable ==
    /\ \A n \in Names : created[n] <= 1
    /\ (/\ last.op = "get"
        /\ StaticFunctionName(last.name)
        /\ ~Overridden(last.before, last.name))
       => last.ret = TheCallable

ReadsAndDeletes ==
    {"get", "getOwnPropertySlot", "deleteProperty", "getOwnNonIndexPropertyNames"}

(* C10, amended: at most one callable is ever created for a name of the       *)
(* instance; a read that the lookup resolves to the static function (no       *)
(* hasProperty or getProperty callback and no static value answers before     *)
(* the entry is found) and that finds a callback in an entry for the name     *)
(* returns that one callable, creating it when the instance does not hold it  *)
(* yet; and reads, enumerations and deletes never remove or replace it.       *)
C10_OneCallableForResolvedReads ==
    /\ \A n \in Names :
          /\ created[n] <= 1
          /\ own[n].v.t = "JSCallbackFunction"
                => (own[n].v = TheCallable /\ created[n] = 1)
    /\ (/\ last.op = "get"
        /\ \E i \in Events : Log[i].kind = "staticFunctionGetter"
        /\ last.thrown = "none"
        /\ ~Overridden(last.before, last.name))
       => /\ last.ret = TheCallable
          /\ own[last.name].v = TheCallable
          /\ last.made = (IF last.before[last.name].v = TheCallable THEN 0 ELSE 1)
    /\ last.op \in ReadsAndDeletes
       => \A n \in Names : last.before[n].v = TheCallable => own[n] = last.before[n]

(* A second read of a static function: the instance held the callable of the  *)
(* first read, and the read returned it without creating another.             *)
C10_Witness ==
    /\ last.op = "get"
    /\ StaticFunctionName(last.name)
    /\ last.before[last.name].v = TheCallable
    /\ last.ret = TheCallable
    /\ last.made = 0
    /\ created[last.name] = 1

-----------------------------------------------------------------------------
(* Overrides of static functions *)

(* The position of the step at which a set or a read found the static         *)
(* function entry for the name, 0 if it found none.                           *)
FunctionFound ==
    IF \E i \in Events : Log[i].kind = "staticFunctions" /\ Log[i].ret
    THEN CHOOSE i \in Events : Log[i].kind = "staticFunctions" /\ Log[i].ret
    ELSE 0

ResolvedToStaticFunction == \E i \in Events : Log[i].kind = "staticFunctionGetter"

(* C11, as claimed: a set of a static-function name on an instance without an *)
(* own property of that name installs the value as an own property, and every *)
(* later read of the name returns the installed value.                        *)
C11_SetAlwaysShadowsMethod ==
    /\ (/\ last.op = "put"
        /\ StaticFunctionName(last.name)
        /\ last.before[last.name] = NoProperty)
       => own[last.name].v = last.value
    /\ (/\ last.op = "get"
        /\ StaticFunctionName(last.name)
        /\ Overridden(last.before, last.name))
       => last.ret = last.before[last.name].v

(* C11, amended: a set that reaches the static-function entry for the name    *)
(* (no setProperty callback and no static setter before it accepted or threw, *)
(* and no read-only static value stopped it) on an instance without an own    *)
(* property of that name installs the value as an own data property without   *)
(* attributes and returns true, unless the entry is ReadOnly: then it returns *)
(* false and installs nothing.  Every later read that the lookup resolves to  *)
(* the static function returns the installed value, not the method, and       *)
(* creates no callable; a hasProperty or getProperty callback or a static     *)
(* value that answers the lookup first still takes precedence.                *)
C11_SetShadowsMethodWhenReached ==
    /\ (/\ last.op = "put"
        /\ FunctionFound # 0
        /\ last.before[last.name] = NoProperty)
       => LET entry == staticFunctions(Log[FunctionFound].cls)[last.name]
          IN  IF kJSPropertyAttributeReadOnly \in entry.attributes
              THEN /\ last.ret = jsFalse
                   /\ own = last.before
                   /\ FunctionFound = Len(Log)
              ELSE /\ last.ret = jsTrue
                   /\ own = [last.before EXCEPT ![last.name] = [v |-> last.value, attrs |-> {}]]
                   /\ Log[Len(Log)] = Step("putDirect", Log[FunctionFound].cls, TRUE)
    /\ (/\ last.op = "get"
        /\ ResolvedToStaticFunction
        /\ Overridden(last.before, last.name))
       => /\ last.ret = last.before[last.name].v
          /\ last.made = 0
          /\ own = last.before

(* A read of a static-function name, resolved to the static function, on an   *)
(* instance that holds a value a set installed: the read returned that value  *)
(* and no callable was ever created for the name.                             *)
C11_Witness ==
    /\ last.op = "get"
    /\ StaticFunctionName(last.name)
    /\ ResolvedToStaticFunction
    /\ Overridden(last.before, last.name)
    /\ last.ret = last.before[last.name].v
    /\ created[last.name] = 0

(* C12, as claimed: once the callable of a static function is an own property *)
(* of the instance, an access of the name is answered by the own property     *)
(* with the chain walk bypassed: no callback is invoked and no static table   *)
(* is consulted.                                                              *)
C12_OwnCallableBypassesWalk ==
    (IsRead /\ last.before[last.name].v = TheCallable)
    => /\ CallbackEvents = {}
       /\ \A i \in Events : Log[i].kind \notin {"staticValues", "staticFunctions"}
       /\ last.op = "get" => last.ret = TheCallable

(* C12, amended: once the callable of a static function is an own property of *)
(* the instance, every later read that the lookup resolves to the static      *)
(* function is answered by the own property: staticFunctionGetter finds it,   *)
(* returns it without walking the chain and creates nothing.  The lookup      *)
(* itself is not bypassed: getOwnPropertySlot walks the chain as before,      *)
(* invokes the hasProperty / getProperty callbacks and consults the static    *)
(* tables up to the entry of the static function, and a callback or static    *)
(* value that answers first decides the read.                                 *)
C12_OwnCallableAnswersResolvedReads ==
    (last.op = "get" /\ last.before[last.name].v = TheCallable)
    => /\ ResolvedToStaticFunction =>
             /\ FunctionFound # 0
             /\ Log[FunctionFound + 1].kind = "staticFunctionGetter"
             /\ Len(Log) = FunctionFound + 2
             /\ Log[Len(Log)] = Step("Parent::getOwnPropertySlot", nullptr, TRUE)
             /\ last.ret = TheCallable
             /\ last.made = 0
             /\ own = last.before
       /\ ~ResolvedToStaticFunction =>
             \E i \in CallbackEvents : Log[i].ret \/ Log[i].exc

(* The instance holds the callable, the descriptor's hasProperty declined,    *)
(* the lookup found the entry in the static-function table, and the read      *)
(* returned the callable the instance holds.                                  *)
C12_Witness ==
    /\ last.op = "get"
    /\ last.before[last.name].v = TheCallable
    /\ \E i \in CallbackEvents : Log[i].kind = "hasProperty" /\ ~Log[i].ret
    /\ ResolvedToStaticFunction
    /\ last.ret = TheCallable
    /\ last.made = 0

-----------------------------------------------------------------------------
(* The life of an instance *)

Initializes == SelectSeq(lifecycle, LAMBDA e : e.kind = "initialize")
Finalizes == SelectSeq(lifecycle, LAMBDA e : e.kind = "finalize")

Descending(s) == \A i, j \in DOMAIN s : i < j => s[i].cls > s[j].cls
Ascending(s) == \A i, j \in DOMAIN s : i < j => s[i].cls < s[j].cls
ClassesOf(s) == { s[i].cls : i \in DOMAIN s }

(* C13: the initialize callbacks of an instance fire from the root descriptor *)
(* to the leaf, each defined one exactly once; on destruction the finalize    *)
(* callbacks fire from the leaf to the root, each defined one exactly once;   *)
(* and every initialize precedes every finalize.                              *)
C13_InitializeRootFirstFinalizeLeafFirst ==
    /\ lifecycle = Initializes \o Finalizes
    /\ Descending(Initializes)
    /\ Ascending(Finalizes)
    /\ ClassesOf(Initializes) =
          IF phase = "constructed" THEN {}
          ELSE { c \in DOMAIN classes : classes[c].initialize }
    /\ ClassesOf(Finalizes) =
          IF phase = "destroyed"
          THEN { c \in DOMAIN classes : classes[c].finalize }
          ELSE {}

(* A destroyed instance of a chain of two descriptors that both define        *)
(* initialize and finalize: root, leaf, then leaf, root.                      *)
C13_Witness ==
    /\ phase = "destroyed"
    /\ Len(classes) = 2
    /\ Len(lifecycle) = 4
    /\ lifecycle[1].kind = "initialize" /\ lifecycle[1].cls = 2
    /\ lifecycle[2].kind = "initialize" /\ lifecycle[2].cls = 1
    /\ lifecycle[3].kind = "finalize" /\ lifecycle[3].cls = 1
    /\ lifecycle[4].kind = "finalize" /\ lifecycle[4].cls = 2

-----------------------------------------------------------------------------
(* The lock after a callback *)

(* C14, as claimed: after a host callback returns, the engine-wide lock is    *)
(* held again before the core reads the callback's return value or exception  *)
(* and before it writes a result derived from it.                             *)
C14_RelockedBeforeInspection ==
    \A i \in CallbackEvents : Log[i].relocked

-----------------------------------------------------------------------------
(* Invocation *)

Defining(kind) == { c \in DOMAIN classes : classes[c][kind] }
First(S) == CHOOSE c \in S : \A d \in S : c <= d
Probe(S) == Val(IF S # {} THEN "Host" ELSE "None", 0)

(* C15: getCallData reports a callable exactly when some descriptor of the    *)
(* chain defines the call callback of its generation, getConstructData        *)
(* likewise for the construct callback, and neither invokes a host callback.  *)
C15_ProbesReportWithoutInvoking ==
    /\ last.op = "getCallData"
       => (last.ret = Probe(Defining("callAsFunction")) /\ Log = <<>>)
    /\ last.op = "getConstructData"
       => (last.ret = Probe(Defining("callAsConstructor")) /\ Log = <<>>)

(* getCallData reported a callable for a chain whose leaf defines no call     *)
(* callback and whose root does.                                              *)
C15_Witness ==
    /\ last.op = "getCallData"
    /\ Len(classes) = 2
    /\ ~classes[classRef].callAsFunction /\ classes[2].callAsFunction
    /\ last.ret = Val("Host", 0)
    /\ Log = <<>>

DispatchKind == [call |-> "callAsFunction", construct |-> "callAsConstructor"]

(* C16: a call (or construct) dispatched on an instance whose probe reported  *)
(* capable invokes exactly one callback, that of the first descriptor of the  *)
(* chain that defines it, and never reaches the assertion at the end of the   *)
(* chain.                                                                     *)
C16_DispatchInvokesFirstDefining ==
    last.op \in {"call", "construct"}
    => /\ Len(Log) = 1
       /\ IsCallback(Log[1])
       /\ Log[1].kind = DispatchKind[last.op]
       /\ Log[1].cls = First(Defining(DispatchKind[last.op]))
       /\ last.thrown # "RELEASE_ASSERT"

(* A construct on a chain of two descriptors that both define the callback,   *)
(* with different generations: only the leaf's ran.                           *)
C16_Witness ==
    /\ last.op = "construct"
    /\ Len(classes) = 2
    /\ classes[1].callAsConstructor /\ classes[2].callAsConstructor
    /\ classes[1].version # classes[2].version
    /\ Len(Log) = 1
    /\ Log[1].cls = classRef

(* C17: in an instance-of check the first descriptor of the chain that        *)
(* defines hasInstance is the only one invoked and its return value is the    *)
(* result; if none defines it the result is false and nothing is thrown.      *)
C17_FirstHasInstanceAnswers ==
    last.op = "customHasInstance"
    => IF Defining("hasInstance") # {}
       THEN /\ Len(Log) = 1
            /\ IsCallback(Log[1])
            /\ Log[1].kind = "hasInstance"
            /\ Log[1].cls = First(Defining("hasInstance"))
            /\ last.ret = jsBoolean(Log[1].ret)
       ELSE /\ Log = <<>>
            /\ last.ret = jsFalse
            /\ last.thrown = "none"

(* The root's hasInstance answered true for a chain whose leaf defines none.  *)
C17_Witness ==
    /\ last.op = "customHasInstance"
    /\ Len(classes) = 2
    /\ ~classes[classRef].hasInstance /\ classes[2].hasInstance
    /\ Len(Log) = 1
    /\ Log[1].cls = 2 /\ Log[1].ret /\ ~Log[1].exc
    /\ last.ret = jsTrue

-----------------------------------------------------------------------------
(* Enumeration *)

IsEnumerate == last.op = "getOwnNonIndexPropertyNames"
includeDontEnumProperties == last.arg = 1

Chained == DOMAIN classes
DontEnum(entry) == kJSPropertyAttributeDontEnum \in entry.attributes
Requested(entry) == ~DontEnum(entry) \/ includeDontEnumProperties

(* C18, as claimed: the enumeration contains every static-value name and      *)
(* every static-function name of the chain that is not flagged DontEnum, and  *)
(* the DontEnum ones exactly when non-enumerable names are requested.         *)
C18_EveryStaticNameEnumerated ==
    IsEnumerate
    => \A c \in Chained :
         /\ \A n \in DOMAIN staticValues(c) :
              IF DontEnum(staticValues(c)[n])
              THEN n \in last.names <=> includeDontEnumProperties
              ELSE n \in last.names
         /\ \A n \in DOMAIN staticFunctions(c) :
              IF DontEnum(staticFunctions(c)[n])
              THEN n \in last.names <=> includeDontEnumProperties
              ELSE n \in last.names

(* the names the static tables of the chain contribute *)
StaticNamesListed ==
    { n \in Names :
        \E c \in Chained :
          \/ /\ contains(staticValues(c), n)
             /\ staticValues(c)[n].getProperty
             /\ Requested(staticValues(c)[n])
          \/ /\ contains(staticFunctions(c), n)
             /\ Requested(staticFunctions(c)[n]) }

HostNamesAdded ==
    IF \E i \in CallbackEvents : Log[i].kind = "getPropertyNames" /\ Log[i].ret
    THEN {HostName} ELSE {}

(* C18, amended: the enumeration contains every static-function name, and     *)
(* every static-value name whose entry has a getter for its generation, that  *)
(* is not flagged DontEnum, and the DontEnum ones of these when non-enumerable*)
(* names are requested; a static name is in the output otherwise only if a    *)
(* getPropertyNames callback or the generic object supplied it.               *)
C18_StaticNamesWithGetterEnumerated ==
    IsEnumerate
    => /\ StaticNamesListed \subseteq last.names
       /\ last.names \subseteq
              StaticNamesListed \cup HostNamesAdded
              \cup ParentGetOwnPropertyNames(own, includeDontEnumProperties)

(* A static value without a getter was left out, a DontEnum static function   *)
(* of the parent descriptor was listed on request.                            *)
C18_Witness ==
    /\ IsEnumerate
    /\ includeDontEnumProperties
    /\ Len(classes) = 2
    /\ contains(staticValues(classRef), StaticName)
    /\ ~staticValues(classRef)[StaticName].getProperty
    /\ contains(staticFunctions(2), StaticName)
    /\ DontEnum(staticFunctions(2)[StaticName])
    /\ last.names = {StaticName}
    /\ own = NoOwn

-----------------------------------------------------------------------------
(* Generations *)

(* C19, as claimed: every host callback is invoked in the form of the         *)
(* declared generation of the descriptor or static entry that owns it: a      *)
(* Legacy callback with the Legacy signature, an Extended callback with the   *)
(* Extended signature.                                                        *)
C19_FormMatchesGeneration ==
    \A i \in CallbackEvents : Log[i].form = Form(Log[i].gen)

-----------------------------------------------------------------------------
(* Static functions without a callback *)

FunctionClasses(name) == { c \in Chained : contains(staticFunctions(c), name) }

(* the first static-function entry of the chain for the name has no callback  *)
(* for its generation                                                         *)
NullFunctionEntry(name) ==
    /\ FunctionClasses(name) # {}
    /\ ~staticFunctions(First(FunctionClasses(name)))[name].callAsFunction

NothingInstalled == last.made = 0 /\ own = last.before

(* C20, as claimed: reading a name whose static-function entry has no         *)
(* callback for its generation gives a ReferenceError and installs no         *)
(* callable on the instance.                                                  *)
C20_NullFunctionAlwaysReferenceError ==
    (last.op = "get" /\ NullFunctionEntry(last.name))
    => (last.thrown = "ReferenceError" /\ NothingInstalled)

(* C20, amended: such a read gives a ReferenceError and installs nothing when *)
(* it reaches the static-function getter, the instance holds no own property  *)
(* of that name, and no descriptor of the chain has an entry for the name     *)
(* with a callback.                                                           *)
C20_NullFunctionReferenceErrorWhenNoneCallable ==
    (/\ last.op = "get"
     /\ NullFunctionEntry(last.name)
     /\ ResolvedToStaticFunction
     /\ last.before[last.name] = NoProperty
     /\ \A c \in FunctionClasses(last.name) :
          ~staticFunctions(c)[last.name].callAsFunction)
    => /\ last.thrown = "ReferenceError"
       /\ last.ret = ReferenceError
       /\ NothingInstalled

(* Two descriptors, each with an entry without a callback: the getter walked  *)
(* both and reported the error.                                               *)
C20_Witness ==
    /\ last.op = "get"
    /\ Len(classes) = 2
    /\ FunctionClasses(last.name) = {1, 2}
    /\ NullFunctionEntry(last.name)
    /\ ~staticFunctions(2)[last.name].callAsFunction
    /\ ResolvedToStaticFunction
    /\ last.thrown = "ReferenceError"
    /\ own = NoOwn

(* The leaf's entry has no callback, the root's has one: the read installed   *)
(* the root's callable.                                                       *)
C20_DeeperEntryInstalled ==
    /\ last.op = "get"
    /\ NullFunctionEntry(last.name)
    /\ last.made = 1
    /\ last.thrown = "none"
    /\ own[last.name] # NoProperty

-----------------------------------------------------------------------------
(* Resolution order *)

(* the descriptors whose static-function entry for the name has a callback:   *)
(* once the lookup reaches such a table it answers                            *)
CallableClasses(name) ==
    { c \in FunctionClasses(name) : staticFunctions(c)[name].callAsFunction }

(* an event of getStaticValue: a static-value table or a static-value getter  *)
StaticValueEvent(e) ==
    e.kind = "staticValues" \/ (e.kind = "getProperty" /\ e.owner = "staticValue")

(* an event of the slot lookup's own dynamic callbacks *)
LookupCallback(i) ==
    /\ IsCallback(Log[i])
    /\ Log[i].owner = "class"
    /\ (GetterStart = 0 \/ i < GetterStart)

(* C21, as claimed: a read is answered by the first answering source in the   *)
(* order descriptor by descriptor, callbacks then static values then static   *)
(* functions; no later source is consulted while an earlier one would answer: *)
(* nothing past the first descriptor with a callable static function.         *)
C21_NoLaterSourceConsulted ==
    (last.op = "get" /\ CallableClasses(last.name) # {})
    => \A i \in Events : Log[i].cls <= First(CallableClasses(last.name))

(* C21, amended: the slot lookup itself consults the sources in that order    *)
(* and stops at the first answer; past the first descriptor with a callable   *)
(* static function only the nested walks go: getStaticValue through the       *)
(* static values of the whole chain, callbackGetter through its getProperty   *)
(* callbacks.  A value read from a getProperty callback in the lookup comes   *)
(* from the first descriptor whose callback yields one, and past it only a    *)
(* getStaticValue walk started at an earlier descriptor has gone.             *)
C21_LookupInOrderButNestedWalks ==
    last.op = "get"
    => /\ \A i, j \in Events :
            (LookupCallback(i) /\ LookupCallback(j) /\ i < j) => Log[i].cls < Log[j].cls
       /\ CallableClasses(last.name) # {}
          => \A i \in Events :
               Log[i].cls > First(CallableClasses(last.name))
               => \/ StaticValueEvent(Log[i])
                  \/ (GetterStart # 0 /\ i > GetterStart)
       /\ (GetterStart = 0 /\ last.ret.t = "getProperty")
          => /\ Log[Len(Log)].cls = last.ret.c
             /\ \A i \in Events :
                  Log[i].cls > last.ret.c => StaticValueEvent(Log[i])

(* The scenario: the leaf defines nothing for the name, its parent's          *)
(* getProperty yields a value, and the read returns it.                       *)
C21_Witness ==
    /\ last.op = "get"
    /\ Len(classes) = 2
    /\ ~classes[classRef].getProperty /\ ~classes[classRef].hasProperty
    /\ ~contains(staticValues(classRef), last.name)
    /\ ~contains(staticFunctions(classRef), last.name)
    /\ last.ret = Val("getProperty", 2)
    /\ Len(Log) >= 1
    /\ Log[Len(Log)].kind = "getProperty" /\ Log[Len(Log)].ret

-----------------------------------------------------------------------------
(* Private data *)

(* C22: the private-data pointer changes only in setPrivate, which stores its *)
(* argument; getPrivate returns the pointer held (that of the creation or of  *)
(* the most recent setPrivate); no other operation, initialization and        *)
(* destruction included, changes it.                                          *)
C22_PrivateDataOwnedByEmbedder ==
    [][/\ last'.op = "setPrivate" => privateData' = last'.arg
       /\ last'.op # "setPrivate" => privateData' = privateData
       /\ last'.op = "getPrivate" => last'.arg = privateData]_vars

(* getPrivate returned a pointer on an instance whose properties had been     *)
(* written.                                                                   *)
C22_Witness ==
    /\ last.op = "getPrivate"
    /\ last.arg = 1
    /\ own # NoOwn

-----------------------------------------------------------------------------
(* Chain membership *)

(* the descriptors reachable from those of S by parent links, S included *)
RECURSIVE ReachableFrom(_)
ReachableFrom(S) ==
    LET T == S \cup ({ parentClass(c) : c \in S } \ {nullptr})
    IN  IF T = S THEN S ELSE ReachableFrom(T)

(* C23: inherits(c) is true exactly when c is the instance's own descriptor   *)
(* or reachable from it by parent links; it invokes no host callback and      *)
(* changes no state.                                                          *)
C23_InheritsIsChainMembership ==
    [][last'.op = "inherits"
       => /\ last'.ret = jsBoolean(last'.arg \in ReachableFrom({classRef}))
          /\ last'.log = <<>>
          /\ UNCHANGED <<classes, phase, own, privateData, created, lifecycle>>]_vars

(* The query answered true for the root of a chain of two descriptors. *)
C23_Witness ==
    /\ last.op = "inherits"
    /\ Len(classes) = 2
    /\ last.arg = 2
    /\ last.ret = jsTrue

-----------------------------------------------------------------------------
(* The chain loops, one iteration per step.                                   *)
(*   for (jsClass = classRef(); jsClass; jsClass = jsClass->parentClass)      *)
(* walk.jsClass is the loop variable, walk.outer the descriptor at which      *)
(* getOwnPropertySlot called getStaticValue, walk.answered whether the loop   *)
(* was left by a return in its body, walk.steps the iterations so far (up to  *)
(* one more than there are descriptors).                                      *)

WalkOps ==
    {"getOwnPropertySlot", "callbackGetter", "staticFunctionGetter", "put",
     "deleteProperty", "getOwnNonIndexPropertyNames", "call", "construct",
     "customHasInstance", "inherits", "init", "~JSCallbackObject"}

(* What the body of an iteration at descriptor c can do: "return", "continue" *)
(* with the parent, or call "getStaticValue".  A host callback may answer or  *)
(* decline.                                                                   *)
WalkBody(op, arg, c) ==
    LET jsClass == classes[c]
        value == contains(staticValues(c), StaticName)
        function == contains(staticFunctions(c), StaticName)
        may(defined) == IF defined THEN {"return", "continue"} ELSE {"continue"}
        must(defined) == IF defined THEN {"return"} ELSE {"continue"}
        then(first, rest) == (first \ {"continue"}) \cup (IF "continue" \in first THEN rest ELSE {})
    IN  CASE op = "getOwnPropertySlot" ->     \* lines 180-239
               then(may(jsClass.hasProperty \/ jsClass.getProperty),
                    IF value THEN {"getStaticValue"} ELSE must(function))
          [] op = "getStaticValue" ->         \* lines 694-718
               may(value /\ staticValues(c)[StaticName].getProperty)
          [] op = "callbackGetter" ->         \* lines 770-792
               may(jsClass.getProperty)
          [] op = "staticFunctionGetter" ->   \* lines 737-753
               must(function /\ staticFunctions(c)[StaticName].callAsFunction)
          [] op = "put" ->                    \* lines 295-349
               then(may(jsClass.setProperty),
                    IF value /\ kJSPropertyAttributeReadOnly
                                    \in staticValues(c)[StaticName].attributes
                    THEN {"return"}
                    ELSE then(may(value /\ jsClass.setProperty
                                  /\ staticValues(c)[StaticName].setProperty),
                              must(function)))
          [] op = "deleteProperty" ->         \* lines 433-470
               then(may(jsClass.deleteProperty), must(value \/ function))
          [] op = "getOwnNonIndexPropertyNames" -> {"continue"}     \* lines 620-658
          [] op = "call" -> must(jsClass.callAsFunction)            \* lines 586-607
          [] op = "construct" -> must(jsClass.callAsConstructor)    \* lines 505-526
          [] op = "customHasInstance" -> must(jsClass.hasInstance)  \* lines 542-559
          [] op = "inherits" -> must(c = arg)                       \* lines 678-681
          [] op = "init" -> {"continue"}                            \* lines 127-130
          [] op = "~JSCallbackObject" -> {"continue"}               \* lines 90-97

(* a continue that leaves the loop variable where it is *)
WalkAdvance_Stays(w) ==
    [w EXCEPT !.steps = IF @ <= Len(classes) THEN @ + 1 ELSE @]

(* jsClass = jsClass->parentClass *)
WalkAdvance(w) ==
    [w EXCEPT !.jsClass = classes[w.jsClass].parentClass,
              !.steps = IF @ <= Len(classes) THEN @ + 1 ELSE @]

WalkReturn(w, answered) == [w EXCEPT !.pc = "returned", !.answered = answered]

(* getStaticValue is back in getOwnPropertySlot at descriptor w.outer *)
WalkOuter(w) == [w EXCEPT !.op = "getOwnPropertySlot", !.jsClass = w.outer, !.outer = nullptr]

(* A handler enters its loop. *)
StartWalk(op, arg) ==
    /\ walk.pc = "idle"
    /\ walk' = [NoWalk EXCEPT !.op = op, !.arg = arg, !.jsClass = classRef, !.pc = "loop"]
    /\ UNCHANGED <<classes, phase, own, privateData, created, lifecycle, last, file>>

(* One evaluation of the loop condition and, if it holds, of the body. *)
WalkStep ==
    /\ walk.pc = "loop"
    /\ IF walk.jsClass = nullptr
       THEN IF walk.op = "getStaticValue"
            THEN \* return JSValue(): lines 233-238 of the caller, then its parent
                 IF contains(staticFunctions(walk.outer), StaticName)
                 THEN walk' = WalkReturn(WalkOuter(walk), TRUE)
                 ELSE walk' = WalkAdvance(WalkOuter(walk))
            ELSE walk' = WalkReturn(walk, FALSE)
       ELSE \E b \in WalkBody(walk.op, walk.arg, walk.jsClass) :
              CASE b = "return" ->
                     walk' = WalkReturn(IF walk.op = "getStaticValue"
                                        THEN WalkOuter(walk) ELSE walk, TRUE)
                [] b = "continue" -> walk' = WalkAdvance(walk)
                [] b = "getStaticValue" ->
                     walk' = [walk EXCEPT !.op = "getStaticValue", !.outer = walk.jsClass,
                                          !.jsClass = classRef]
    /\ UNCHANGED <<classes, phase, own, privateData, created, lifecycle, last, file>>

(* The handler has returned to its caller. *)
EndWalk ==
    /\ walk.pc = "returned"
    /\ walk' = NoWalk
    /\ UNCHANGED <<classes, phase, own, privateData, created, lifecycle, last, file>>

(* Descriptors as an embedder can link them: any parent, itself or a          *)
(* descriptor further down included.                                          *)
WalkShapes ==
    { Shape({}, NoTable, NoTable),
      Shape(CallbackKinds, NoTable, NoTable),
      Shape({}, StaticValueEntry(TRUE, TRUE, {}), NoTable),
      Shape({}, NoTable, StaticFunctionEntry(TRUE, {})) }

LinkedChains(shapes) ==
    UNION { { [c \in 1..n |->
                 JSClass(0, parent[c], shape[c].callbacks,
                         TableOf(0, shape[c].value), TableOf(0, shape[c].function))]
              : shape \in [1..n -> shapes], parent \in [1..n -> 0..n] }
            : n \in 1..MaxDepth }

InitWalk == Constructed(LinkedChains(WalkShapes), {nullptr})

NextWalk ==
    \/ \E op \in WalkOps \ {"inherits"} : StartWalk(op, nullptr)
    \/ \E c \in 1..(MaxDepth + 1) : StartWalk("inherits", c)
    \/ WalkStep
    \/ EndWalk

(* The thread that runs a handler runs on: host callbacks return. *)
SpecWalk == InitWalk /\ [][NextWalk]_vars /\ WF_vars(WalkStep)

-----------------------------------------------------------------------------
(* Termination *)

(* the descriptors a walk from S visits, by the parent links as registered *)
RECURSIVE Visited(_)
Visited(S) ==
    LET T == S \cup ({ classes[c].parentClass : c \in S } \ {nullptr})
    IN  IF T = S THEN S ELSE Visited(T)

Cyclic ==
    \E c \in Visited({classRef}) :
        classes[c].parentClass # nullptr /\ c \in Visited({classes[c].parentClass})

C24_EveryWalkTerminates ==
    (walk.pc = "loop") ~> (walk.pc = "returned")

-----------------------------------------------------------------------------
(* Delete of a static entry *)

(* the delete ended at a static table of descriptor Log[Len(Log)].cls *)
DeleteAnsweredByStatic ==
    /\ IsDelete
    /\ Log # <<>>
    /\ Log[Len(Log)].kind \in {"staticValues", "staticFunctions"}
    /\ Log[Len(Log)].ret

AnsweringEntry ==
    IF Log[Len(Log)].kind = "staticValues"
    THEN staticValues(Log[Len(Log)].cls)[last.name]
    ELSE staticFunctions(Log[Len(Log)].cls)[last.name]

(* a read of the name finds a static value with a getter or a static function *)
Readable(name) ==
    \E c \in Chained :
        \/ contains(staticValues(c), name) /\ staticValues(c)[name].getProperty
        \/ contains(staticFunctions(c), name)

(* C25: a delete answered by a static entry without DontDelete returns true   *)
(* and changes nothing: the generic delete is not invoked, the own properties *)
(* (a materialized callable, an override) stay, and a read of the name        *)
(* resolves as it did before.                                                 *)
C25_StaticDeleteChangesNothing ==
    (DeleteAnsweredByStatic
     /\ kJSPropertyAttributeDontDelete \notin AnsweringEntry.attributes)
    => /\ last.ret = jsTrue
       /\ last.thrown = "none"
       /\ own = last.before
       /\ \A i \in Events : Log[i].kind # "Parent::deleteProperty"
       /\ get(own, last.name) = get(last.before, last.name)
       /\ Readable(last.name)
          => \E s \in getOwnPropertySlot(own, last.name) : s.ret # Empty

(* A delete of a static-function name whose callable had been materialized   *)
(* returned true and the callable is still the instance's own property.       *)
C25_Witness ==
    /\ DeleteAnsweredByStatic
    /\ Log[Len(Log)].kind = "staticFunctions"
    /\ kJSPropertyAttributeDontDelete \notin AnsweringEntry.attributes
    /\ last.before[last.name].v.t = "JSCallbackFunction"
    /\ own[last.name] = last.before[last.name]
    /\ last.ret = jsTrue

-----------------------------------------------------------------------------
(* callbackGetter after hasProperty *)

(* the events of callbackGetter's own walk *)
GetterEvents == { i \in Events : GetterStart # 0 /\ i > GetterStart }

(* C26: after some descriptor's hasProperty returned true, callbackGetter     *)
(* walks again from the most-derived descriptor, asks every getProperty       *)
(* callback in chain order, skips those that yield no value, and returns the  *)
(* value of the first that yields one, whichever descriptor's hasProperty     *)
(* answered.                                                                  *)
C26_GetterValueFromFirstYielding ==
    (last.op = "get" /\ GetterStart # 0)
    => /\ HasAnswered(Log[GetterStart - 1])
       /\ \A i \in GetterEvents :
            /\ Log[i].kind = "getProperty" /\ Log[i].owner = "class"
            /\ \A d \in 1..Log[i].cls :
                 classes[d].getProperty => \E j \in GetterEvents : j <= i /\ Log[j].cls = d
       /\ \A i, j \in GetterEvents :
            i < j => (Log[i].cls < Log[j].cls /\ ~Log[i].ret /\ ~Log[i].exc)
       /\ last.ret.t = "getProperty"
          <=> (GetterEvents # {} /\ Log[Len(Log)].ret /\ ~Log[Len(Log)].exc)
       /\ last.ret.t = "getProperty" => last.ret.c = Log[Len(Log)].cls

(* The leaf's hasProperty declined, its parent's answered, and the value      *)
(* came from the leaf's getProperty.                                          *)
C26_Witness ==
    /\ last.op = "get"
    /\ GetterStart # 0
    /\ Len(classes) = 2
    /\ Log[GetterStart - 1].cls = 2
    /\ last.ret = Val("getProperty", classRef)

-----------------------------------------------------------------------------
(* putByIndex and put *)

(* what a caller and the host can tell of a write: its result, the exception, *)
(* the instance afterwards and the host callbacks invoked, in order           *)
WriteView(ret, thrown, o, log) ==
    [ret |-> ret, thrown |-> thrown, own |-> o, callbacks |-> SelectSeq(log, IsCallback)]

WriteViews(outs) == { WriteView(out.ret, out.thrown, out.own, out.log) : out \in outs }

(* C27, as claimed: putByIndex(i, v) returns the same result, invokes the     *)
(* same callbacks with the same arguments and leaves the instance in the same *)
(* state as put of the decimal string of i, and the other way round.          *)
C27_PutByIndexSameAsPut ==
    /\ last.op = "putByIndex"
       => WriteView(last.ret, last.thrown, own, Log)
             \in WriteViews(put(last.before, IdentifierFrom(last.arg), last.value))
    /\ \A i \in Indices :
         (last.op = "put" /\ last.name = IdentifierFrom(i))
         => WriteView(last.ret, last.thrown, own, Log)
               \in WriteViews(putByIndex(last.before, i, last.value))

-----------------------------------------------------------------------------
(* hasProperty returning false *)

HasDeclined(e) == IsCallback(e) /\ e.kind = "hasProperty" /\ e.owner = "class" /\ ~e.ret

(* C28: when a descriptor's hasProperty returns false in a slot lookup, the   *)
(* lookup does not invoke that descriptor's getProperty: it looks into the    *)
(* descriptor's static-value table next, and reaches the callbacks of a       *)
(* deeper descriptor only after the descriptor's static-function table.       *)
C28_DeclinedHasPropertySkipsGetProperty ==
    IsRead
    => \A i \in Events :
         HasDeclined(Log[i])
         => /\ \A j \in Events :
                 (LookupCallback(j) /\ Log[j].kind = "getProperty")
                 => Log[j].cls # Log[i].cls
            /\ i < Len(Log)
            /\ Log[i + 1].kind = "staticValues" /\ Log[i + 1].cls = Log[i].cls
            /\ \A j \in Events :
                 (j > i /\ LookupCallback(j))
                 => /\ Log[j].cls = parentClass(Log[i].cls) \/ Log[j].cls > parentClass(Log[i].cls)
                    /\ \E k \in (i + 1)..(j - 1) :
                         /\ Log[k].kind = "staticFunctions"
                         /\ Log[k].cls = Log[i].cls
                         /\ ~Log[k].ret

(* The leaf defines both callbacks; its hasProperty returned false, its       *)
(* getProperty was not asked, and the lookup went on to the parent's          *)
(* getProperty.                                                               *)
C28_Witness ==
    /\ last.op = "getOwnPropertySlot"
    /\ Len(classes) = 2
    /\ classes[classRef].hasProperty /\ classes[classRef].getProperty
    /\ HasDeclined(Log[1])
    /\ \E j \in Events : Log[j].kind = "getProperty" /\ Log[j].cls = 2
    /\ \A j \in Events : Log[j].kind = "getProperty" => Log[j].cls = 2

-----------------------------------------------------------------------------
(* deleteProperty callbacks that throw *)

(* C29: when a deleteProperty callback sets its exception, the delete throws  *)
(* it and returns true, whatever boolean the callback returned, and nothing   *)
(* of the instance is deleted.                                                *)
C29_ThrowingDeleteReportsDeleted ==
    IsDelete
    => \A i \in CallbackEvents :
         (DeleteCallback(Log[i]) /\ Log[i].exc)
         => /\ i = Len(Log)
            /\ last.thrown = "host"
            /\ last.ret = jsTrue
            /\ own = last.before

(* The parent's deleteProperty returned false with an exception: the delete   *)
(* reported true.                                                             *)
C29_Witness ==
    /\ IsDelete
    /\ Len(classes) = 2
    /\ Log # <<>>
    /\ DeleteCallback(Log[Len(Log)])
    /\ Log[Len(Log)].cls = 2
    /\ Log[Len(Log)].exc /\ ~Log[Len(Log)].ret
    /\ last.ret = jsTrue
    /\ last.thrown = "host"

-----------------------------------------------------------------------------
(* WebCore::ResourceLoader::readFileToString, statement by statement.  The    *)
(* file system is the embedder's: each of its calls answers with any value    *)
(* of its return type.                                                        *)

MaxCalls == 3                 \* calls of readFileToString

invalidFileHandle == 0
FileSizes == {-1, 0, 1, 2}    \* what GetFileSize may store in fileSize
String == ""                  \* String(): the empty string
Content == "content"          \* String(buffer.data(), fileSize), fileSize > 0

objectVars == <<classes, phase, own, privateData, created, lifecycle, last, walk>>

(* fs->CloseFile(handle) *)
CloseFile(f, handle) ==
    IF handle = invalidFileHandle
    THEN [f EXCEPT !.invalidCloses = @ + 1]
    ELSE [f EXCEPT !.open = @ \ {handle}, !.closes = Append(@, handle)]

(* return from readFileToString *)
ReturnString(f, path, result) ==
    [f EXCEPT !.pc = "returned", !.path = path, !.result = result]

(* lines 41-43: the call, and the test of the file system pointer *)
ReadFileToString ==
    /\ file.pc = "idle"
    /\ file.calls < MaxCalls
    /\ \E fs \in BOOLEAN :
         LET f == [file EXCEPT !.calls = @ + 1, !.fs = fs, !.handle = invalidFileHandle,
                               !.fileSize = 0, !.path = "", !.result = ""]
         IN  file' = IF ~fs THEN ReturnString(f, "noFileSystem", String)
                     ELSE [f EXCEPT !.pc = "openFile"]
    /\ UNCHANGED objectVars

(* lines 45-47 with openFile, lines 13-36: a handle of the file system, or    *)
(* invalidFileHandle when there is no file system, no such file or OpenFile   *)
(* failed                                                                     *)
OpenFile ==
    /\ file.pc = "openFile"
    /\ \E fs \in BOOLEAN, FileExists \in BOOLEAN, opens \in BOOLEAN :
         LET handle == IF fs /\ FileExists /\ opens THEN file.calls ELSE invalidFileHandle
         IN  file' = IF handle = invalidFileHandle
                     THEN ReturnString(file, "openFailed", String)
                     ELSE [file EXCEPT !.pc = "GetFileSize", !.handle = handle,
                                       !.opened = @ \cup {handle},
                                       !.open = @ \cup {handle}]
    /\ UNCHANGED objectVars

(* lines 52-55: the size query; buffer.resize of a negative size aborts *)
GetFileSize ==
    /\ file.pc = "GetFileSize"
    /\ \E ok \in BOOLEAN, fileSize \in FileSizes :
         file' = IF ~ok THEN [file EXCEPT !.pc = "FAIL_LOAD", !.path = "sizeFailed"]
                 ELSE IF fileSize = 0
                 THEN [file EXCEPT !.pc = "FAIL_LOAD", !.path = "zeroSize", !.fileSize = 0]
                 ELSE IF fileSize < 0
                 THEN [file EXCEPT !.pc = "crashed", !.fileSize = fileSize]
                 ELSE [file EXCEPT !.pc = "ReadFromFile", !.fileSize = fileSize]
    /\ UNCHANGED objectVars

(* lines 56-61: the read; a full read closes the handle and returns the       *)
(* content                                                                    *)
ReadFromFile ==
    /\ file.pc = "ReadFromFile"
    /\ \E read \in (-1)..file.fileSize :
         file' = IF read # file.fileSize
                 THEN [file EXCEPT !.pc = "FAIL_LOAD", !.path = "shortRead"]
                 ELSE ReturnString(CloseFile(file, file.handle), "success", Content)
    /\ UNCHANGED objectVars

(* FAIL_LOAD returning without closing the handle *)
FailLoad_ReturnsOpen ==
    /\ file.pc = "FAIL_LOAD"
    /\ file' = ReturnString(file, file.path, String)
    /\ UNCHANGED objectVars

(* lines 63-66 *)
FailLoad ==
    /\ file.pc = "FAIL_LOAD"
    /\ file' = ReturnString(IF file.fs /\ file.handle # invalidFileHandle
                            THEN CloseFile(file, file.handle) ELSE file,
                            file.path, String)
    /\ UNCHANGED objectVars

(* the caller has the string *)
Returned ==
    /\ file.pc = "returned"
    /\ file' = [file EXCEPT !.pc = "idle"]
    /\ UNCHANGED objectVars

(* the loader has nothing to do with the instance: one descriptor, no callbacks *)
InitFile ==
    Constructed({Chain(1, [c \in {1} |-> Shape({}, NoTable, NoTable)], [c \in {1} |-> 0])},
                {nullptr})

NextFile ==
    ReadFileToString \/ OpenFile \/ GetFileSize \/ ReadFromFile \/ FailLoad \/ Returned

SpecFile == InitFile /\ [][NextFile]_vars

-----------------------------------------------------------------------------
(* File handles *)

Occurrences(s, x) == Cardinality({ i \in DOMAIN s : s[i] = x })

(* C30: when readFileToString has returned, every handle it opened has been   *)
(* closed exactly once, CloseFile was never given invalidFileHandle, and on   *)
(* every path but the successful one the result is the empty string.          *)
C30_HandleClosedOnceOnEveryPath ==
    /\ file.invalidCloses = 0
    /\ \A handle \in file.opened : Occurrences(file.closes, handle) <= 1
    /\ \A i \in DOMAIN file.closes : file.closes[i] \in file.opened
    /\ file.pc \in {"returned", "idle"}
       => /\ file.open = {}
          /\ \A handle \in file.opened : Occurrences(file.closes, handle) = 1
    /\ file.pc = "returned"
       => /\ file.path \in {"noFileSystem", "openFailed", "sizeFailed", "zeroSize",
                            "shortRead", "success"}
          /\ file.path # "success" => file.result = String
          /\ file.path = "success" => file.result = Content

(* A second call returned after a short read, its handle closed once, the     *)
(* first call's handle closed before.                                         *)
C30_Witness ==
    /\ file.pc = "returned"
    /\ file.path = "shortRead"
    /\ file.result = String
    /\ file.calls = 2
    /\ file.closes = <<1, 2>>
    /\ file.open = {}

=============================================================================
